---- MODULE Spec2Model ----
(***************************************************************************)
(* State-machine model of the tapedrive mining program (pinocchio port).   *)
(*                                                                         *)
(* Representation choices                                                  *)
(*  - u64 is a saturating/wrapping machine word.  TLC integers are 32 bit, *)
(*    so the word is narrowed to 30 bits (U64_MAX = 2^30 - 1); every       *)
(*    saturating_* and `as u64` of the source goes through the operators   *)
(*    below, and the bounds keep products below 2^31.                      *)
(*  - A blake3 digest used as a Merkle hash is a term, serialised as a     *)
(*    sequence of integers: <<0>> is the all-zero digest, <<1, id, seg>>   *)
(*    a leaf, <<2>> \o lo \o hi a node, <<3, seed>> a seed hash.  Terms    *)
(*    are collision free; their byte order is the lexicographic order.     *)
(*  - A blake3 digest used as a challenge is a number below HashSpace: it  *)
(*    stands for the two little-endian u64 words the program reads from    *)
(*    it (Word0, Word1).                                                   *)
(*  - A segment is a small number; 0 is the all-zero EMPTY_SEGMENT.        *)
(***************************************************************************)
EXTENDS Integers, Sequences, FiniteSets, TLC

\* ------------------------------------------------------------------ bounds
TreeHeight == 1
\* The height N of the MerkleTree<N> that is driven directly.
MerkleHeight == 2
\* The leaves added to that tree are the segments 0..MaxLeafValue.
MaxLeafValue == 2
\* log2 of the capacity of the layer buffers of get_merkle_proof_no_std.
MaxLayerBits == 1
\* The height of the tape tree of a spool, and the cap on the tapes of a spool.
TapeTreeHeight == 2
MaxSpoolTapes == 1
\* Spools are numbered 0..MaxSpoolNumber.
MaxSpoolNumber == 0
HashWord == 2
MaxSegValue == 1
MaxWriteLen == 2
MaxTicks == 1
MaxMines == 2
MaxSubsidies == 2
MaxMiningSubsidies == 1
MaxSlotHash == 1

\* ------------------------------------------------------- program constants
U64_MAX == 1073741823
RENT_PER_SEGMENT == 100
BLOCK_DURATION_SECONDS == 60
EPOCH_BLOCKS == 10
ADJUSTMENT_INTERVAL == 50
BLOCKS_PER_YEAR == (60 * 60 * 24 * 365) \div BLOCK_DURATION_SECONDS
MAX_CONSISTENCY_MULTIPLIER == 32
MIN_CONSISTENCY_MULTIPLIER == 1
MIN_MINING_DIFFICULTY == 1
MIN_PACKING_DIFFICULTY == 0
MIN_PARTICIPATION_TARGET == 1
MAX_PARTICIPATION_TARGET == 100
EMPTY_SEGMENT == 0
EPOCHS_PER_YEAR == (365 * 24 * 60) \div EPOCH_BLOCKS

\* SEGMENT_TREE_HEIGHT is 18 in the source; the tree is generic in its
\* height and the model instantiates it at TreeHeight.
SEGMENT_TREE_HEIGHT == TreeHeight
SEGMENT_PROOF_LEN == SEGMENT_TREE_HEIGHT

Pow2(n) == IF n = 0 THEN 1 ELSE IF n = 1 THEN 2 ELSE IF n = 2 THEN 4
           ELSE IF n = 3 THEN 8 ELSE IF n = 4 THEN 16 ELSE 32

\* The capacity of the segment tree (1 << SEGMENT_TREE_HEIGHT).
MAX_SEGMENTS_PER_TAPE == Pow2(SEGMENT_TREE_HEIGHT)

\* ---------------------------------------------------------- u64 arithmetic
Min(a, b) == IF a <= b THEN a ELSE b
Max(a, b) == IF a >= b THEN a ELSE b

saturating_add(a, b) == IF a > U64_MAX - b THEN U64_MAX ELSE a + b
saturating_sub(a, b) == IF a < b THEN 0 ELSE a - b
saturating_mul(a, b) ==
    IF a = 0 \/ b = 0 THEN 0
    ELSE IF a > U64_MAX \div b THEN U64_MAX ELSE a * b
saturating_div(a, b) == a \div b
\* `x as u64` of a u128 value: the low word.
as_u64(x) == x % (U64_MAX + 1)
\* i64 saturating arithmetic on the (non-negative) timestamps of the model.
i64_saturating_add(a, b) == a + b
i64_saturating_sub(a, b) == a - b

\* ------------------------------------------------------------ Merkle hashes
ZeroHash == <<0>>

RECURSIVE LexLeq(_, _)
\* left.to_bytes() <= right.to_bytes(): the byte order of two digests.
LexLeq(a, b) ==
    IF a = <<>> THEN TRUE
    ELSE IF b = <<>> THEN FALSE
    ELSE IF Head(a) < Head(b) THEN TRUE
    ELSE IF Head(a) > Head(b) THEN FALSE
    ELSE LexLeq(Tail(a), Tail(b))

\* Leaf::new(&[segment_id.to_le_bytes(), segment]) = H("LEAF" || id || segment)
Leaf(id, seg) == <<1, id, seg>>
compute_leaf(segment_id, segment) == Leaf(segment_id, segment)

\* hashv(&[b"NODE", a, b]) with the operands already ordered.
NodeHash(lo, hi) == <<2>> \o lo \o hi

hash_left_right(left, right) ==
    IF LexLeq(left, right) THEN NodeHash(left, right) ELSE NodeHash(right, left)

RECURSIVE FoldPath(_, _)
\* The running hash of is_valid_leaf / verify: fold the proof over the leaf.
FoldPath(h, proof) ==
    IF proof = <<>> THEN h
    ELSE FoldPath(hash_left_right(h, Head(proof)), Tail(proof))

\* compute_path: the leaf hash followed by every intermediate hash; the last
\* element is the computed root.
compute_path(proof, leaf) ==
    [i \in 1..(Len(proof) + 1) |-> FoldPath(leaf, SubSeq(proof, 1, i - 1))]

is_valid_path(path, root) ==
    IF path = <<>> THEN FALSE ELSE path[Len(path)] = root

\* brine_tree::verify(root, proof, leaf)
verify(root, proof, leaf) == is_valid_path(compute_path(proof, leaf), root)

\* ------------------------------------------------------------- MerkleTree<N>
\* The tree of a freshly created (zero-filled) account: every field zero.
ZeroedTree(N) ==
    [root |-> ZeroHash,
     filled_subtrees |-> [i \in 1..N |-> ZeroHash],
     zero_values |-> [i \in 1..N |-> ZeroHash],
     next_index |-> 0]

RECURSIVE AddLeafLoop(_, _, _, _, _)
\* The loop of try_add_leaf from level i (0-based) on; returns the new
\* filled_subtrees and the running hash.
AddLeafLoop(tree, i, current_index, current_hash, filled) ==
    IF i = Len(tree.zero_values) THEN [filled |-> filled, hash |-> current_hash]
    ELSE IF current_index % 2 = 0
         THEN AddLeafLoop(tree, i + 1, current_index \div 2,
                          hash_left_right(current_hash, tree.zero_values[i + 1]),
                          [filled EXCEPT ![i + 1] = current_hash])
         ELSE AddLeafLoop(tree, i + 1, current_index \div 2,
                          hash_left_right(filled[i + 1], current_hash),
                          filled)

\* A variant of the capacity check that lets one more leaf in.
TreeFull_inclusive(t) == ~(t.next_index <= Pow2(Len(t.zero_values)))

TreeFull(tree) == ~(tree.next_index < Pow2(Len(tree.zero_values)))

\* try_add_leaf on a tree that is not full.
try_add_leaf(tree, leaf) ==
    LET r == AddLeafLoop(tree, 0, tree.next_index, leaf, tree.filled_subtrees)
    IN [tree EXCEPT !.root = r.hash,
                    !.filled_subtrees = r.filled,
                    !.next_index = tree.next_index + 1]

RECURSIVE AddLeaves(_, _)
\* try_add_leaf for each leaf in turn; err is "TreeFull" when one of them
\* fails (the tree is then the one reached so far).
AddLeaves(tree, leaves) ==
    IF leaves = <<>> THEN [err |-> "", tree |-> tree]
    ELSE IF TreeFull(tree) THEN [err |-> "TreeFull", tree |-> tree]
    ELSE AddLeaves(try_add_leaf(tree, Head(leaves)), Tail(leaves))

\* compute_path_no_std: (path_hashes[0..N), computed root)
compute_path_no_std(N, proof, leaf) ==
    [path |-> [i \in 1..N |-> FoldPath(leaf, SubSeq(proof, 1, i - 1))],
     root |-> FoldPath(leaf, proof)]

\* A variant of try_replace_leaf_no_std that rewrites filled_subtrees and keeps
\* the old root.
try_replace_leaf_stale_root(t, proof, original_leaf, new_leaf) ==
    LET N == Len(t.zero_values)
        o == compute_path_no_std(N, proof, original_leaf)
        n == compute_path_no_std(N, proof, new_leaf)
    IN IF Len(proof) # N THEN [err |-> "ProofLength", tree |-> t]
       ELSE IF o.root # t.root THEN [err |-> "InvalidProof", tree |-> t]
       ELSE [err |-> "",
             tree |-> [t EXCEPT
               !.filled_subtrees =
                   [i \in 1..N |-> IF o.path[i] = t.filled_subtrees[i]
                                   THEN n.path[i] ELSE t.filled_subtrees[i]]]]

\* try_replace_leaf_no_std: err is "ProofLength", "InvalidProof" or "" with
\* the new tree.
try_replace_leaf_no_std(tree, proof, original_leaf, new_leaf) ==
    LET N == Len(tree.zero_values)
        o == compute_path_no_std(N, proof, original_leaf)
        n == compute_path_no_std(N, proof, new_leaf)
    IN IF Len(proof) # N THEN [err |-> "ProofLength", tree |-> tree]
       ELSE IF o.root # tree.root THEN [err |-> "InvalidProof", tree |-> tree]
       ELSE [err |-> "",
             tree |-> [tree EXCEPT
               !.filled_subtrees =
                   [i \in 1..N |-> IF o.path[i] = tree.filled_subtrees[i]
                                   THEN n.path[i] ELSE tree.filled_subtrees[i]],
               !.root = n.root]]

\* hash_pairs: hash the elements of an even-length layer two by two.
hash_pairs(pairs) ==
    [i \in 1..(Len(pairs) \div 2) |-> hash_left_right(pairs[2 * i - 1], pairs[2 * i])]

RECURSIVE ProofLoop(_, _, _, _, _)
\* get_merkle_proof: at each level pad an odd layer with that level's zero
\* value, take the sibling of current_index, and hash the pairs.
ProofLoop(layer, zero_values, current_index, level, height) ==
    IF level = height THEN <<>>
    ELSE LET padded == IF Len(layer) % 2 # 0
                       THEN Append(layer, zero_values[level + 1]) ELSE layer
             sibling == IF current_index % 2 = 0
                        THEN padded[current_index + 2]
                        ELSE padded[current_index]
         IN <<sibling>> \o ProofLoop(hash_pairs(padded), zero_values,
                                     current_index \div 2, level + 1, height)

get_merkle_proof(leaves, zero_values, leaf_index, height) ==
    ProofLoop(leaves, zero_values, leaf_index, 0, height)

\* hashv(seeds): the digest of a tree's seed.
SeedHash(seed) == <<3, seed>>

RECURSIVE ZerosFrom(_, _)
\* The loop of calc_zeros: zeros[i] = current; current = H("NODE", current, current).
ZerosFrom(current, n) ==
    IF n = 0 THEN <<>>
    ELSE <<current>> \o ZerosFrom(NodeHash(current, current), n - 1)

calc_zeros(N, seed) == ZerosFrom(SeedHash(seed), N)

\* MerkleTree::<N>::new(seeds)
new(N, seed) ==
    LET zeros == calc_zeros(N, seed)
    IN [root |-> zeros[N],
        filled_subtrees |-> zeros,
        zero_values |-> zeros,
        next_index |-> 0]

\* check_length / check_length_no_std
check_length(tree, proof) == Len(proof) = Len(tree.zero_values)

\* contains_leaf / contains_leaf_no_std: false for a proof of the wrong length,
\* else is_valid_leaf(proof, self.root, leaf).
contains_leaf(tree, proof, leaf) ==
    IF ~check_length(tree, proof) THEN FALSE
    ELSE FoldPath(leaf, proof) = tree.root

\* The layer buffers of get_merkle_proof_no_std hold MAX_LAYER_SIZE hashes
\* (4096 in the source, 2^MaxLayerBits here).
MAX_LAYER_SIZE == Pow2(MaxLayerBits)

\* A slot of a MaybeUninit buffer that was never written.
Uninit == <<4>>

RECURSIVE NoStdProofLoop(_, _, _, _, _, _, _)
\* The level loop of get_merkle_proof_no_std.  current_layer and next_layer are
\* the two buffers (1-based here), swapped after every level; panic is an
\* index past the end of a buffer.
NoStdProofLoop(current_layer, next_layer, current_size, current_index, level, zero_values, proof) ==
    LET N == Len(zero_values)
    IN IF level = N THEN [panic |-> FALSE, proof |-> proof]
       ELSE IF current_size <= 1
       THEN [panic |-> FALSE, proof |-> proof \o SubSeq(zero_values, level + 1, N)]
       ELSE IF current_index % 2 # 0 /\ current_index - 1 >= MAX_LAYER_SIZE
       THEN [panic |-> TRUE, proof |-> proof]
       ELSE LET sibling ==
                    IF current_index % 2 = 0
                    THEN IF current_index + 1 < current_size
                         THEN current_layer[current_index + 2]
                         ELSE zero_values[level + 1]
                    ELSE current_layer[current_index]
                next_size == (current_size + 1) \div 2
                written ==
                    [i \in 1..MAX_LAYER_SIZE |->
                        IF i <= next_size
                        THEN hash_left_right(
                                 current_layer[2 * i - 1],
                                 IF 2 * i - 1 < current_size
                                 THEN current_layer[2 * i]
                                 ELSE zero_values[level + 1])
                        ELSE next_layer[i]]
            IN NoStdProofLoop(written, current_layer, next_size,
                              current_index \div 2, level + 1, zero_values,
                              Append(proof, sibling))

\* get_merkle_proof_no_std::<N>(leaves, zero_values, leaf_index): only the
\* first MAX_LAYER_SIZE leaves are loaded.  undefined: the proof holds a slot
\* that was read before it was written.
get_merkle_proof_no_std(leaves, zero_values, leaf_index) ==
    LET actual_leaves == IF Len(leaves) > MAX_LAYER_SIZE
                         THEN SubSeq(leaves, 1, MAX_LAYER_SIZE) ELSE leaves
        size == Len(actual_leaves)
        padded == IF size % 2 # 0 THEN size + 1 ELSE size
        first == [i \in 1..MAX_LAYER_SIZE |->
                     IF i <= size THEN actual_leaves[i]
                     ELSE IF i <= padded THEN zero_values[1] ELSE Uninit]
        r == NoStdProofLoop(first, [i \in 1..MAX_LAYER_SIZE |-> Uninit], padded,
                            leaf_index, 0, zero_values, <<>>)
    IN IF padded > MAX_LAYER_SIZE
       THEN [panic |-> TRUE, undefined |-> FALSE, proof |-> <<>>]
       ELSE [panic |-> r.panic,
             undefined |-> \E i \in 1..Len(r.proof) : r.proof[i] = Uninit,
             proof |-> r.proof]

\* ---------------------------------------------------------------- challenges
HashSpace == HashWord * HashWord
Digests == 0..(HashSpace - 1)

\* blake3 over two inputs (a challenge and a slot hash, or two challenges).
Blake3(a, b) == (a + 3 * b + 1) % HashSpace

\* u64::from_le_bytes(challenge[0..8]) and u64::from_le_bytes(challenge[8..16])
Word0(c) == c % HashWord
Word1(c) == c \div HashWord

compute_challenge(block_challenge, miner_challenge) ==
    Blake3(block_challenge, miner_challenge)

\* The first SlotHash of the sysvar is the input `slothash`.
compute_next_challenge(current_challenge, slothash) ==
    Blake3(current_challenge, slothash)

\* Variant: the recall always names the first tape.
compute_recall_tape_first(challenge, total_tapes) == 1


compute_recall_tape(challenge, total_tapes) ==
    IF total_tapes = 0 THEN 1 ELSE (Word0(challenge) % total_tapes) + 1

compute_recall_segment(challenge, total_segments) ==
    IF total_segments = 0 THEN 0 ELSE Word1(challenge) % total_segments

\* -------------------------------------------------------------------- state
VARIABLES
    archive,     \* Archive account
    epoch,       \* Epoch account
    block,       \* Block account
    tapes,       \* tape address -> Tape account (the domain: existing accounts)
    writers,     \* tape address -> Writer account of that tape (while open)
    miners,      \* miner address -> Miner account
    clock,       \* Clock sysvar: unix_timestamp and slot
    last,        \* the last instruction processed and its result
    segments,    \* off-chain: the segments each tape's owner has written
    finalizations, \* history: the tape and block number of each finalize, in order
    budget,      \* history: how many steps of each kind were taken, and the
                 \* block number at which the current epoch began
    spools,      \* spool address -> Spool account
    packed,      \* off-chain: the leaves each spool's owner has packed, in order
    tree,        \* a MerkleTree<N> driven directly through its methods
    leaves       \* off-chain: the leaves that tree holds, by position

spool_vars == <<spools, packed, tree, leaves>>
vars == <<archive, epoch, block, tapes, writers, miners, clock, last,
          segments, finalizations, budget, spools, packed, tree, leaves>>

Signers == {"payer", "alice"}
TapeNames == {"a"}
GenesisTape == <<"payer", "genesis">>
\* tape_pda(authority, name): the address is the pair.
tape_pda(authority, name) == <<authority, name>>
TapeAddrs == {GenesisTape} \cup {tape_pda(s, n) : s \in Signers, n \in TapeNames}
MinerNames == {"m"}
miner_pda(authority, name) == <<authority, name>>
MinerAddrs == {miner_pda(s, n) : s \in Signers, n \in MinerNames}
SegmentValues == 0..MaxSegValue

\* TapeState
Unknown == 0
Created == 1
Writing == 2
Finalized == 3

\* The record kept in `last`: the instruction that was processed and the
\* tape and miner accounts it was given (<<>> when it takes none).
Done(op, taddr, maddr) == [op |-> op, tape |-> taddr, miner |-> maddr]
NoAccount == << >>

\* --------------------------------------------------------------------- Tape
rent_per_block(tape) == saturating_mul(tape.total_segments, RENT_PER_SEGMENT)

has_minimum_rent(tape) == tape.balance >= rent_per_block(tape)

\* Variant: finalization asks for no rent.
can_finalize_always(tape) == TRUE


can_finalize(tape) ==
    tape.balance >= saturating_mul(rent_per_block(tape), BLOCKS_PER_YEAR)

rent_owed(tape, current_block) ==
    LET blocks == saturating_sub(current_block, tape.last_rent_block)
    IN as_u64(rent_per_block(tape) * blocks)

\* rent::min_finalization_rent(segments)
min_finalization_rent(segs) ==
    saturating_mul(saturating_mul(segs, RENT_PER_SEGMENT), BLOCKS_PER_YEAR)

\* ------------------------------------------------------- tape instructions
\* Each Do* operator is the handler as a function of the accounts it is
\* given: it returns the error ("" when it succeeds) and the accounts it
\* leaves.  The actions below apply them to the state.

\* process_tape_create
DoCreate(signer, name, slot) ==
    [number |-> 0, state |-> Created, authority |-> signer, name |-> name,
     merkle_root |-> ZeroHash, first_slot |-> slot, tail_slot |-> slot,
     balance |-> 0,
     last_rent_block |-> 0, total_segments |-> 0]

NewWriter(addr) == [tape |-> addr, state |-> ZeroedTree(SEGMENT_TREE_HEIGHT)]

\* A variant of the leaves of a write that numbers the segments of every write
\* from 0.
WriteLeaves_from_zero(total_segments, data) ==
    [i \in 1..Len(data) |-> compute_leaf(i - 1, data[i])]

\* The leaves process_tape_write appends for `data` (a sequence of canonical
\* segments) to a tape that holds total_segments segments.
WriteLeaves(total_segments, data) ==
    [i \in 1..Len(data) |-> compute_leaf(total_segments + (i - 1), data[i])]

\* process_tape_write, from the state check on.
DoWrite(tape, writer, data, slot) ==
    LET segment_count == Len(data)
        added == AddLeaves(writer.state, WriteLeaves(tape.total_segments, data))
    IN IF ~(tape.state = Created \/ tape.state = Writing)
       THEN [err |-> "UnexpectedState", tape |-> tape, writer |-> writer]
       ELSE IF ~(tape.total_segments + segment_count <= MAX_SEGMENTS_PER_TAPE)
       THEN [err |-> "TapeTooLong", tape |-> tape, writer |-> writer]
       ELSE IF added.err # ""
       THEN [err |-> "WriteFailed", tape |-> tape, writer |-> writer]
       ELSE [err |-> "",
             tape |-> [tape EXCEPT !.total_segments = tape.total_segments + segment_count,
                                   !.merkle_root = added.tree.root,
                                   !.state = Writing,
                                   !.tail_slot = slot],
             writer |-> [writer EXCEPT !.state = added.tree]]

\* process_tape_update, from the state check on.
\* A variant of the update that also counts the replaced segment as a new one.
DoUpdate_counts(tape, writer, segment_number, old_data, new_data, proof, slot) ==
    LET old_leaf == Leaf(segment_number, old_data)
        new_leaf == Leaf(segment_number, new_data)
        replaced == try_replace_leaf_no_std(writer.state, proof, old_leaf, new_leaf)
    IN IF ~(tape.state = Created \/ tape.state = Writing)
       THEN [err |-> "UnexpectedState", tape |-> tape, writer |-> writer]
       ELSE IF Len(proof) # SEGMENT_PROOF_LEN
       THEN [err |-> "InvalidInstructionData", tape |-> tape, writer |-> writer]
       ELSE IF replaced.err # ""
       THEN [err |-> "WriteFailed", tape |-> tape, writer |-> writer]
       ELSE [err |-> "",
             tape |-> [tape EXCEPT !.merkle_root = replaced.tree.root,
                                   !.total_segments = tape.total_segments + 1,
                                   !.tail_slot = slot],
             writer |-> [writer EXCEPT !.state = replaced.tree]]

DoUpdate(tape, writer, segment_number, old_data, new_data, proof, slot) ==
    LET old_leaf == Leaf(segment_number, old_data)
        new_leaf == Leaf(segment_number, new_data)
        replaced == try_replace_leaf_no_std(writer.state, proof, old_leaf, new_leaf)
    IN IF ~(tape.state = Created \/ tape.state = Writing)
       THEN [err |-> "UnexpectedState", tape |-> tape, writer |-> writer]
       ELSE IF Len(proof) # SEGMENT_PROOF_LEN
       THEN [err |-> "InvalidInstructionData", tape |-> tape, writer |-> writer]
       ELSE IF replaced.err # ""
       THEN [err |-> "WriteFailed", tape |-> tape, writer |-> writer]
       ELSE [err |-> "",
             tape |-> [tape EXCEPT !.merkle_root = replaced.tree.root,
                                   !.tail_slot = slot],
             writer |-> [writer EXCEPT !.state = replaced.tree]]

\* process_tape_subsidize_rent: the token transfer is the host's.
DoSubsidize(tape, amount) ==
    [tape EXCEPT !.balance = saturating_add(tape.balance, amount)]

\* Variant: the tape takes the archive's count before it is incremented.
DoFinalize_stale_number(tape, arch) ==
    IF tape.state # Writing
    THEN [err |-> "InvalidAccountData", tape |-> tape, archive |-> arch]
    ELSE IF ~can_finalize(tape)
    THEN [err |-> "InvalidAccountData", tape |-> tape, archive |-> arch]
    ELSE [err |-> "",
          tape |-> [tape EXCEPT !.number = arch.tapes_stored, !.state = Finalized],
          archive |-> [tapes_stored |-> saturating_add(arch.tapes_stored, 1),
                       segments_stored |->
                           saturating_add(arch.segments_stored, tape.total_segments)]]

\* Variant: the state of the tape is not checked.
DoFinalize_any_state(tape, arch) ==
    IF ~can_finalize(tape)
    THEN [err |-> "InvalidAccountData", tape |-> tape, archive |-> arch]
    ELSE LET stored == saturating_add(arch.tapes_stored, 1)
         IN [err |-> "",
             tape |-> [tape EXCEPT !.number = stored, !.state = Finalized],
             archive |-> [tapes_stored |-> stored,
                          segments_stored |->
                              saturating_add(arch.segments_stored, tape.total_segments)]]


\* process_tape_finalize, from the state check on.
\* A variant of the finalization that counts one segment for every tape stored.
DoFinalize_one_segment(tape, arch) ==
    IF tape.state # Writing
    THEN [err |-> "InvalidAccountData", tape |-> tape, archive |-> arch]
    ELSE IF ~can_finalize(tape)
    THEN [err |-> "InvalidAccountData", tape |-> tape, archive |-> arch]
    ELSE LET stored == saturating_add(arch.tapes_stored, 1)
         IN [err |-> "",
             tape |-> [tape EXCEPT !.number = stored, !.state = Finalized],
             archive |-> [tapes_stored |-> stored,
                          segments_stored |-> saturating_add(arch.segments_stored, 1)]]

DoFinalize(tape, arch) ==
    IF tape.state # Writing
    THEN [err |-> "InvalidAccountData", tape |-> tape, archive |-> arch]
    ELSE IF ~can_finalize(tape)
    THEN [err |-> "InvalidAccountData", tape |-> tape, archive |-> arch]
    ELSE LET stored == saturating_add(arch.tapes_stored, 1)
         IN [err |-> "",
             tape |-> [tape EXCEPT !.number = stored, !.state = Finalized],
             archive |-> [tapes_stored |-> stored,
                          segments_stored |->
                              saturating_add(arch.segments_stored, tape.total_segments)]]

\* ------------------------------------------------------------ emission table
\* get_base_rate: the table of the source, each amount in units of 10^5 base
\* units (10000000000 is 100000 here) so that it fits the narrowed word.
get_base_rate(current_epoch) ==
    LET n == current_epoch
        Y == EPOCHS_PER_YEAR
    IN IF n < 1 * Y THEN 100000
       ELSE IF n < 2 * Y THEN 75000
       ELSE IF n < 3 * Y THEN 56250
       ELSE IF n < 4 * Y THEN 42187
       ELSE IF n < 5 * Y THEN 31640
       ELSE IF n < 6 * Y THEN 23730
       ELSE IF n < 7 * Y THEN 17797
       ELSE IF n < 8 * Y THEN 13348
       ELSE IF n < 9 * Y THEN 10011
       ELSE IF n < 10 * Y THEN 7508
       ELSE IF n < 11 * Y THEN 5631
       ELSE IF n < 12 * Y THEN 4223
       ELSE IF n < 13 * Y THEN 3167
       ELSE IF n < 14 * Y THEN 2375
       ELSE IF n < 15 * Y THEN 1781
       ELSE IF n < 16 * Y THEN 1336
       ELSE IF n < 17 * Y THEN 1002
       ELSE IF n < 18 * Y THEN 751
       ELSE IF n < 19 * Y THEN 563
       ELSE IF n < 20 * Y THEN 422
       ELSE IF n < 21 * Y THEN 317
       ELSE IF n < 22 * Y THEN 237
       ELSE IF n < 23 * Y THEN 178
       ELSE IF n < 24 * Y THEN 133
       ELSE IF n < 25 * Y THEN 100
       ELSE 0

\* Archive::block_reward
block_reward(arch) == saturating_mul(arch.segments_stored, RENT_PER_SEGMENT)

\* --------------------------------------------------------------- initialize
\* The entropy the SlotHashes sysvar offers an instruction.
SlotHashes == 0..MaxSlotHash
\* The digest input that stands for an account address.
KeyDigest(addr) == IF addr[1] = "payer" THEN 0 ELSE 1

\* process_initialize: the epoch, block and archive accounts ...
InitEpoch ==
    [number |-> 1, progress |-> 0,
     target_participation |-> MIN_PARTICIPATION_TARGET,
     mining_difficulty |-> MIN_MINING_DIFFICULTY,
     packing_difficulty |-> MIN_PACKING_DIFFICULTY,
     reward_rate |-> get_base_rate(1),
     duplicates |-> 0, last_epoch_at |-> 0]

\* Variant: the block starts with an empty challenge set.
InitBlock_empty_set(slothash) ==
    [number |-> 1, progress |-> 0, last_proof_at |-> 0, last_block_at |-> 0,
     challenge |-> compute_next_challenge(0, slothash),
     challenge_set |-> 0]


InitBlock(slothash) ==
    [number |-> 1, progress |-> 0, last_proof_at |-> 0, last_block_at |-> 0,
     challenge |-> compute_next_challenge(0, slothash),
     challenge_set |-> 1]

InitArchive == [tapes_stored |-> 0, segments_stored |-> 0]

\* ... and the genesis tape: create, write "hello, world" (one segment),
\* subsidize min_finalization_rent(1), finalize.
GenesisData == <<1>>
GenesisWritten ==
    DoWrite(DoCreate("payer", "genesis", 0), NewWriter(GenesisTape), GenesisData, 0)
GenesisFinalized ==
    DoFinalize(DoSubsidize(GenesisWritten.tape, min_finalization_rent(1)), InitArchive)

NoSegments == [a \in TapeAddrs |-> <<>>]
\* What a miner has earned: the proofs accepted from it, the rewards computed
\* for them and the amounts paid out to it.
NoEarnings == [proofs |-> 0, rewards |-> 0, claimed |-> 0]
NoBudget ==
    [ticks |-> 0, subsidies |-> 0, mines |-> 0, claims |-> 0, epoch_began |-> 1,
     block_of |-> 0, block_rewards |-> 0, block_rate |-> 0,
     ledger |-> [maddr \in MinerAddrs |-> NoEarnings]]

\* No spool exists, and the tree driven directly is the one its constructor
\* returns (its seed is 0).
NoSpools ==
    /\ spools = << >>
    /\ packed = << >>
    /\ tree = new(MerkleHeight, 0)
    /\ leaves = <<>>

InitGenesis ==
    /\ \E slothash \in SlotHashes : block = InitBlock(slothash)
    /\ epoch = InitEpoch
    /\ archive = GenesisFinalized.archive
    /\ tapes = (GenesisTape :> GenesisFinalized.tape)
    /\ writers = << >>
    /\ miners = << >>
    /\ clock = [unix_timestamp |-> 0, slot |-> 0]
    /\ last = Done("initialize", NoAccount, NoAccount)
    /\ segments = [NoSegments EXCEPT ![GenesisTape] = GenesisData]
    /\ finalizations = <<[tape |-> GenesisTape, block |-> 1]>>
    /\ NoSpools
    /\ budget = NoBudget

\* ----------------------------------------------------------------- actions
\* An instruction that returns an error changes no account (the runtime
\* discards what it wrote), so each action is guarded by the handler's
\* success; the error a handler returns for given accounts and arguments is
\* the err field of its Do* operator and of the *AccountsErr operators.

\* The clock sysvar advances.
Tick(d) ==
    /\ clock' = [unix_timestamp |-> clock.unix_timestamp + d, slot |-> clock.slot + 1]
    /\ last' = Done("tick", NoAccount, NoAccount)
    /\ UNCHANGED <<archive, epoch, block, tapes, writers, miners, segments, finalizations, spool_vars>>

RegisterErr(signer, name, addr) ==
    IF addr \in DOMAIN miners THEN "AccountAlreadyInitialized"
    ELSE IF miner_pda(signer, name) # addr THEN "InvalidAccountOwner"
    ELSE ""

\* process_register; Miner::initialize zeroes every counter.
Register(signer, name, addr, slothash) ==
    /\ RegisterErr(signer, name, addr) = ""
    /\ miners' = miners @@ (addr :>
          [authority |-> signer, name |-> name, unclaimed_rewards |-> 0,
           challenge |-> compute_next_challenge(KeyDigest(addr), slothash),
           commitment |-> ZeroHash, multiplier |-> 0,
           last_proof_block |-> 0, last_proof_at |-> clock.unix_timestamp,
           total_proofs |-> 0, total_rewards |-> 0])
    /\ last' = Done("register", NoAccount, addr)
    /\ UNCHANGED <<archive, epoch, block, tapes, writers, clock, segments, finalizations, spool_vars>>

CreateErr(signer, name, addr) ==
    IF addr \in DOMAIN tapes THEN "AccountAlreadyInitialized"
    ELSE IF addr # tape_pda(signer, name) THEN "InvalidAccountData"
    ELSE ""

TapeCreate(signer, name, addr) ==
    /\ CreateErr(signer, name, addr) = ""
    /\ tapes' = tapes @@ (addr :> DoCreate(signer, name, clock.slot))
    /\ writers' = writers @@ (addr :> NewWriter(addr))
    /\ segments' = [segments EXCEPT ![addr] = <<>>]
    /\ last' = Done("create", addr, NoAccount)
    /\ UNCHANGED <<archive, epoch, block, miners, clock, finalizations, spool_vars>>

\* The account checks that precede the state check of write, update and
\* finalize.  Unpacking an account that holds no data (a tape never created, a
\* writer closed by finalize) aborts the instruction: "AccountMissing".
TapeAccountsErr(signer, addr) ==
    IF addr \notin DOMAIN tapes THEN "AccountMissing"
    ELSE IF signer # tapes[addr].authority THEN "MissingRequiredSignature"
    ELSE IF addr \notin DOMAIN writers THEN "AccountMissing"
    ELSE ""

\* The error of process_tape_write for these accounts and this data.
WriteErr(signer, addr, data) ==
    IF TapeAccountsErr(signer, addr) # "" THEN TapeAccountsErr(signer, addr)
    ELSE DoWrite(tapes[addr], writers[addr], data, clock.slot).err

TapeWrite(signer, addr, data) ==
    /\ WriteErr(signer, addr, data) = ""
    /\ LET r == DoWrite(tapes[addr], writers[addr], data, clock.slot) IN
            /\ tapes' = [tapes EXCEPT ![addr] = r.tape]
            /\ writers' = [writers EXCEPT ![addr] = r.writer]
    /\ segments' = [segments EXCEPT ![addr] = @ \o data]
    /\ last' = Done("write", addr, NoAccount)
    /\ UNCHANGED <<archive, epoch, block, miners, clock, finalizations, spool_vars>>

UpdateErr(signer, addr, segment_number, old_data, new_data, proof) ==
    IF TapeAccountsErr(signer, addr) # "" THEN TapeAccountsErr(signer, addr)
    ELSE DoUpdate(tapes[addr], writers[addr], segment_number,
                  old_data, new_data, proof, clock.slot).err

TapeUpdate(signer, addr, segment_number, old_data, new_data, proof) ==
    /\ UpdateErr(signer, addr, segment_number, old_data, new_data, proof) = ""
    /\ LET r == DoUpdate(tapes[addr], writers[addr], segment_number,
                         old_data, new_data, proof, clock.slot) IN
            /\ tapes' = [tapes EXCEPT ![addr] = r.tape]
            /\ writers' = [writers EXCEPT ![addr] = r.writer]
    /\ segments' = IF segment_number < Len(segments[addr])
                   THEN [segments EXCEPT ![addr][segment_number + 1] = new_data]
                   ELSE segments
    /\ last' = Done("update", addr, NoAccount)
    /\ UNCHANGED <<archive, epoch, block, miners, clock, finalizations, spool_vars>>

SubsidizeErr(addr) == IF addr \notin DOMAIN tapes THEN "AccountMissing" ELSE ""

TapeSubsidize(signer, addr, amount) ==
    /\ SubsidizeErr(addr) = ""
    /\ tapes' = [tapes EXCEPT ![addr] = DoSubsidize(tapes[addr], amount)]
    /\ last' = Done("subsidize", addr, NoAccount)
    /\ UNCHANGED <<archive, epoch, block, writers, miners, clock, segments, finalizations, spool_vars>>

FinalizeErr(signer, addr) ==
    IF TapeAccountsErr(signer, addr) # "" THEN TapeAccountsErr(signer, addr)
    ELSE DoFinalize(tapes[addr], archive).err

TapeFinalize(signer, addr) ==
    /\ FinalizeErr(signer, addr) = ""
    /\ LET r == DoFinalize(tapes[addr], archive) IN
            /\ tapes' = [tapes EXCEPT ![addr] = r.tape]
            /\ archive' = r.archive
    /\ writers' = [a \in DOMAIN writers \ {addr} |-> writers[a]]
    /\ finalizations' = Append(finalizations, [tape |-> addr, block |-> block.number])
    /\ UNCHANGED spool_vars
    /\ last' = Done("finalize", addr, NoAccount)
    /\ UNCHANGED <<epoch, block, miners, clock, segments>>

\* ------------------------------------------------------------------- mining
\* A PoW solution is the record of what it solves: is_valid(challenge, segment)
\* holds exactly for the challenge and segment it was ground for.
pow_is_valid(pow, challenge, segment) ==
    pow.challenge = challenge /\ pow.segment = segment

\* A PoA solution packs a segment for one miner address; unpacking it with
\* another address yields bytes that are no segment of any tape.
Garbled == MaxSegValue + 1
poa_unpack(poa, miner_address) ==
    IF poa.miner = miner_address THEN poa.segment ELSE Garbled

\* Variant: the stall test admits the boundary second.
has_stalled_at_boundary(blk, current_time) ==
    current_time >= i64_saturating_add(blk.last_proof_at, BLOCK_DURATION_SECONDS)


\* A variant of has_stalled for which no block ever stalls.
has_stalled_never(blk, current_time) ==
    current_time > i64_saturating_add(current_time, BLOCK_DURATION_SECONDS)

has_stalled(blk, current_time) ==
    current_time > i64_saturating_add(blk.last_proof_at, BLOCK_DURATION_SECONDS)

check_submission(miner, blk, ep, current_time) ==
    IF miner.last_proof_block = blk.number
    THEN IF has_stalled(blk, current_time)
         THEN [err |-> "", epoch |-> [ep EXCEPT !.duplicates = saturating_add(@, 1)]]
         ELSE [err |-> "InvalidInstructionData", epoch |-> ep]
    ELSE [err |-> "", epoch |-> ep]

\* Variant: the Merkle path is not checked.
verify_solution_no_path(ep, tape, miner_address, miner_challenge, pow, poa) ==
    IF ~(pow.difficulty >= ep.mining_difficulty) THEN "SolutionTooEasy"
    ELSE IF ~(poa.difficulty >= ep.packing_difficulty) THEN "SolutionTooEasy"
    ELSE IF has_minimum_rent(tape)
    THEN IF ~pow_is_valid(pow, miner_challenge, poa_unpack(poa, miner_address))
         THEN "SolutionInvalid" ELSE ""
    ELSE IF ~pow_is_valid(pow, miner_challenge, EMPTY_SEGMENT) THEN "SolutionInvalid"
    ELSE ""

\* Variant: the proofs are verified before the difficulties are compared.
verify_solution_validity_first(ep, tape, miner_address, miner_challenge, pow, poa) ==
    LET segment_number == compute_recall_segment(miner_challenge, tape.total_segments)
        recall_segment == poa_unpack(poa, miner_address)
        leaf == Leaf(segment_number, recall_segment)
    IN IF has_minimum_rent(tape) /\ ~verify(tape.merkle_root, poa.path, leaf)
       THEN "SolutionInvalid"
       ELSE IF has_minimum_rent(tape)
               /\ ~pow_is_valid(pow, miner_challenge, recall_segment)
       THEN "SolutionInvalid"
       ELSE IF ~has_minimum_rent(tape)
               /\ ~pow_is_valid(pow, miner_challenge, EMPTY_SEGMENT)
       THEN "SolutionInvalid"
       ELSE IF ~(pow.difficulty >= ep.mining_difficulty) THEN "SolutionTooEasy"
       ELSE IF ~(poa.difficulty >= ep.packing_difficulty) THEN "SolutionTooEasy"
       ELSE ""


verify_solution(ep, tape, miner_address, miner_challenge, pow, poa) ==
    IF ~(pow.difficulty >= ep.mining_difficulty) THEN "SolutionTooEasy"
    ELSE IF ~(poa.difficulty >= ep.packing_difficulty) THEN "SolutionTooEasy"
    ELSE IF has_minimum_rent(tape)
    THEN LET segment_number == compute_recall_segment(miner_challenge, tape.total_segments)
             recall_segment == poa_unpack(poa, miner_address)
             leaf == Leaf(segment_number, recall_segment)
         IN IF ~verify(tape.merkle_root, poa.path, leaf) THEN "SolutionInvalid"
            ELSE IF ~pow_is_valid(pow, miner_challenge, recall_segment) THEN "SolutionInvalid"
            ELSE ""
    ELSE IF ~pow_is_valid(pow, miner_challenge, EMPTY_SEGMENT) THEN "SolutionInvalid"
    ELSE ""

\* Variant: the increment is not capped.
update_multiplier_uncapped(miner, blk) ==
    IF saturating_add(miner.last_proof_block, 1) = blk.number
    THEN [miner EXCEPT !.multiplier = saturating_add(miner.multiplier, 1)]
    ELSE [miner EXCEPT !.multiplier =
              Max(saturating_sub(miner.multiplier, 1), MIN_CONSISTENCY_MULTIPLIER)]


update_multiplier(miner, blk) ==
    IF saturating_add(miner.last_proof_block, 1) = blk.number
    THEN [miner EXCEPT !.multiplier =
              Min(saturating_add(miner.multiplier, 1), MAX_CONSISTENCY_MULTIPLIER)]
    ELSE [miner EXCEPT !.multiplier =
              Max(saturating_sub(miner.multiplier, 1), MIN_CONSISTENCY_MULTIPLIER)]

\* The two assert! of get_scaled_reward: the call panics unless both hold.
scaled_reward_asserts(multiplier) ==
    /\ multiplier >= MIN_CONSISTENCY_MULTIPLIER
    /\ multiplier <= MAX_CONSISTENCY_MULTIPLIER

get_scaled_reward(reward, multiplier) ==
    saturating_div(saturating_mul(reward, multiplier), MAX_CONSISTENCY_MULTIPLIER)

\* Variant: an under-funded tape pays the full reward.
calculate_reward_no_halving(ep, tape, multiplier) ==
    get_scaled_reward(saturating_div(ep.reward_rate, ep.target_participation),
                      multiplier)

\* Variant: the halved reward is rounded up.
calculate_reward_rounded_up(ep, tape, multiplier) ==
    LET scaled_reward ==
            get_scaled_reward(saturating_div(ep.reward_rate, ep.target_participation),
                              multiplier)
    IN IF has_minimum_rent(tape) THEN scaled_reward
       ELSE saturating_div(saturating_add(scaled_reward, 1), 2)

\* calculate_reward panics when it divides by a zero target_participation
\* or when an assertion of get_scaled_reward fails.
calculate_reward_panics(ep, multiplier) ==
    ep.target_participation = 0 \/ ~scaled_reward_asserts(multiplier)


calculate_reward(ep, tape, multiplier) ==
    LET available_reward == saturating_div(ep.reward_rate, ep.target_participation)
        scaled_reward == get_scaled_reward(available_reward, multiplier)
    IN IF has_minimum_rent(tape) THEN scaled_reward
       ELSE saturating_div(scaled_reward, 2)

\* The `+=` of update_miner_state, which is neither saturating nor checked:
\* a sum past the word wraps in a build without overflow checks and panics
\* in a build with them.
add_assign(a, b) == (a + b) % (U64_MAX + 1)
add_assign_overflows(a, b) == a + b > U64_MAX
update_miner_state_overflows(miner, final_reward) ==
    \/ add_assign_overflows(miner.unclaimed_rewards, final_reward)
    \/ add_assign_overflows(miner.total_rewards, final_reward)
    \/ add_assign_overflows(miner.total_proofs, 1)

\* A variant of update_miner_state that leaves total_rewards as it was.
update_miner_state_unclaimed_only(miner, blk, final_reward, current_time, next_miner_challenge) ==
    [miner EXCEPT !.unclaimed_rewards = add_assign(@, final_reward),
                  !.total_proofs = add_assign(@, 1),
                  !.last_proof_block = blk.number,
                  !.challenge = next_miner_challenge,
                  !.last_proof_at = current_time]

update_miner_state(miner, blk, final_reward, current_time, next_miner_challenge) ==
    [miner EXCEPT !.unclaimed_rewards = add_assign(@, final_reward),
                  !.total_rewards = add_assign(@, final_reward),
                  !.total_proofs = add_assign(@, 1),
                  !.last_proof_block = blk.number,
                  !.challenge = next_miner_challenge,
                  !.last_proof_at = current_time]

update_tape_balance(tape, block_number) ==
    LET rent == rent_owed(tape, block_number)
    IN [tape EXCEPT !.balance = saturating_sub(tape.balance, rent)]

\* Variant: the block advances without resetting its progress.
advance_block_keeps_progress(blk, current_time) ==
    [blk EXCEPT !.last_proof_at = current_time,
                !.last_block_at = current_time,
                !.number = saturating_add(blk.number, 1)]


advance_block(blk, current_time) ==
    [blk EXCEPT !.progress = 0,
                !.last_proof_at = current_time,
                !.last_block_at = current_time,
                !.number = saturating_add(blk.number, 1)]

\* Variant: the participation target rises without a cap.
adjust_participation_uncapped(ep) ==
    IF ep.duplicates = 0
    THEN IF ep.number % ADJUSTMENT_INTERVAL = 0
         THEN [ep EXCEPT !.target_participation = saturating_add(@, 1)]
         ELSE ep
    ELSE [ep EXCEPT !.target_participation =
              Max(saturating_sub(@, 1), MIN_PARTICIPATION_TARGET)]

\* Variant: a mean block time equal to the block duration still counts as fast.
adjust_difficulty_inclusive(ep, current_time) ==
    LET elapsed_time == i64_saturating_sub(current_time, ep.last_epoch_at)
        average_time_per_block == elapsed_time \div EPOCH_BLOCKS
    IN IF average_time_per_block <= BLOCK_DURATION_SECONDS
       THEN [ep EXCEPT !.mining_difficulty = saturating_add(@, 1)]
       ELSE [ep EXCEPT !.mining_difficulty =
                 Max(saturating_sub(@, 1), MIN_MINING_DIFFICULTY)]

adjust_participation(ep) ==
    IF ep.duplicates = 0
    THEN IF ep.number % ADJUSTMENT_INTERVAL = 0
         THEN [ep EXCEPT !.target_participation =
                   Min(saturating_add(@, 1), MAX_PARTICIPATION_TARGET)]
         ELSE ep
    ELSE [ep EXCEPT !.target_participation =
              Max(saturating_sub(@, 1), MIN_PARTICIPATION_TARGET)]

adjust_difficulty(ep, current_time) ==
    LET elapsed_time == i64_saturating_sub(current_time, ep.last_epoch_at)
        average_time_per_block == elapsed_time \div EPOCH_BLOCKS
    IN IF average_time_per_block < BLOCK_DURATION_SECONDS
       THEN [ep EXCEPT !.mining_difficulty = saturating_add(@, 1)]
       ELSE [ep EXCEPT !.mining_difficulty =
                 Max(saturating_sub(@, 1), MIN_MINING_DIFFICULTY)]

advance_epoch(ep, current_time) ==
    LET adjusted == adjust_difficulty(adjust_participation(ep), current_time)
    IN [adjusted EXCEPT
            !.number = saturating_add(adjusted.number, 1),
            !.last_epoch_at = current_time,
            !.progress = 0,
            !.duplicates = 0,
            !.mining_difficulty = Max(adjusted.mining_difficulty, MIN_MINING_DIFFICULTY),
            !.target_participation =
                Max(adjusted.target_participation, MIN_PARTICIPATION_TARGET)]

\* Variant: the base rate is read for the epoch that closes.
update_epoch_stale_rate(ep, arch, current_time) ==
    IF ep.progress >= EPOCH_BLOCKS
    THEN LET advanced == advance_epoch(ep, current_time)
             base_rate == get_base_rate(ep.number)
             storage_rate == block_reward(arch)
         IN [advanced EXCEPT !.reward_rate = saturating_add(storage_rate, base_rate)]
    ELSE [ep EXCEPT !.progress = saturating_add(@, 1)]

update_epoch(ep, arch, current_time) ==
    IF ep.progress >= EPOCH_BLOCKS
    THEN LET advanced == advance_epoch(ep, current_time)
             base_rate == get_base_rate(advanced.number)
             storage_rate == block_reward(arch)
         IN [advanced EXCEPT !.reward_rate = saturating_add(storage_rate, base_rate)]
    ELSE [ep EXCEPT !.progress = saturating_add(@, 1)]

\* process_mine from check_submission on.
DoMine(ep, blk, arch, tape, miner, current_time, pow, poa, slothash) ==
    LET failed(e) == [err |-> e, epoch |-> ep, block |-> blk, tape |-> tape,
                      miner |-> miner, reward |-> 0]
        checked == check_submission(miner, blk, ep, current_time)
        \* An error returned after check_submission leaves in the epoch
        \* account what check_submission wrote there.
        aborted(e) == [failed(e) EXCEPT !.epoch = checked.epoch]
        miner_challenge == compute_challenge(blk.challenge, miner.challenge)
        tape_number == compute_recall_tape(miner_challenge, blk.challenge_set)
        solution == verify_solution(checked.epoch, tape, miner.authority,
                                    miner_challenge, pow, poa)
        multiplied == update_multiplier(miner, blk)
        next_challenge == compute_next_challenge(miner.challenge, slothash)
        reward == calculate_reward(checked.epoch, tape, multiplied.multiplier)
        mined == update_miner_state(multiplied, blk, reward, current_time, next_challenge)
        charged == update_tape_balance(tape, blk.number)
        progressed == [blk EXCEPT !.progress = saturating_add(@, 1)]
        rolled ==
            IF progressed.progress >= checked.epoch.target_participation
            THEN LET advanced == advance_block(progressed, current_time)
                 IN [advanced EXCEPT
                        !.challenge = compute_next_challenge(advanced.challenge, slothash),
                        !.challenge_set = arch.tapes_stored]
            ELSE progressed
    IN IF checked.err # "" THEN failed(checked.err)
       ELSE IF tape.number # tape_number THEN aborted("UnexpectedTape")
       ELSE IF solution # "" THEN aborted(solution)
       ELSE IF calculate_reward_panics(checked.epoch, multiplied.multiplier)
       THEN aborted("panic")
       ELSE [err |-> "", epoch |-> update_epoch(checked.epoch, arch, current_time),
             block |-> rolled, tape |-> charged, miner |-> mined, reward |-> reward]

\* The account checks of process_mine that precede check_submission.
MineAccountsErr(signer, maddr, taddr) ==
    IF taddr \notin DOMAIN tapes THEN "InvalidAccountData"
    ELSE IF maddr \notin DOMAIN miners THEN "InvalidAccountData"
    ELSE IF signer # miners[maddr].authority THEN "InvalidAccountOwner"
    ELSE ""

MineErr(signer, maddr, taddr, pow, poa, slothash) ==
    IF MineAccountsErr(signer, maddr, taddr) # ""
    THEN MineAccountsErr(signer, maddr, taddr)
    ELSE DoMine(epoch, block, archive, tapes[taddr], miners[maddr],
                clock.unix_timestamp, pow, poa, slothash).err

Mine(signer, maddr, taddr, pow, poa, slothash) ==
    /\ MineErr(signer, maddr, taddr, pow, poa, slothash) = ""
    /\ LET r == DoMine(epoch, block, archive, tapes[taddr], miners[maddr],
                       clock.unix_timestamp, pow, poa, slothash) IN
            /\ epoch' = r.epoch
            /\ block' = r.block
            /\ tapes' = [tapes EXCEPT ![taddr] = r.tape]
            /\ miners' = [miners EXCEPT ![maddr] = r.miner]
    /\ last' = Done("mine", taddr, maddr)
    /\ UNCHANGED <<archive, writers, clock, segments, finalizations, spool_vars>>

\* ------------------------------------------------------ inputs and schedule
\* The tape accounts the instructions of Spec are given (SpecTapes gives them
\* every tape address), and the miner accounts registration is asked to create.
SpecTapeAddrs == {GenesisTape} \cup {tape_pda("alice", n) : n \in TapeNames}
NewMinerAddrs == {miner_pda("alice", n) : n \in MinerNames}
TickDurations == {BLOCK_DURATION_SECONDS, BLOCK_DURATION_SECONDS + 1}
SubsidyAmounts == {min_finalization_rent(1)}
\* A year's rent of a full tape, in one payment.
FullSubsidy == min_finalization_rent(MAX_SEGMENTS_PER_TAPE)
WriteData == UNION {[1..n -> SegmentValues] : n \in 0..MaxWriteLen}
SegmentNumbers == 0..(MAX_SEGMENTS_PER_TAPE - 1)
ZeroPath == [i \in 1..SEGMENT_PROOF_LEN |-> ZeroHash]

\* The proof a holder of the tape's segments computes for one of them.
HonestProof(addr, segment_number) ==
    IF segment_number < Len(segments[addr])
    THEN get_merkle_proof(WriteLeaves(0, segments[addr]),
                          ZeroedTree(SEGMENT_TREE_HEIGHT).zero_values,
                          segment_number, SEGMENT_TREE_HEIGHT)
    ELSE ZeroPath

\* The proofs offered to update and mine: an honest one for some segment of
\* the tape, a path of zero digests, a path of the wrong length.
ShortPath == << >>
Proofs(addr) ==
    {HonestProof(addr, n) : n \in SegmentNumbers} \cup {ZeroPath, ShortPath}

\* What a miner holding the tape's segments submits: the recalled segment
\* (the fixed empty one when the tape cannot pay a block's rent), its proof,
\* and a PoW ground for the miner challenge at the epoch's difficulty.
SegmentAt(addr, n) ==
    IF n < Len(segments[addr]) THEN segments[addr][n + 1] ELSE EMPTY_SEGMENT

HonestSolution(maddr, taddr) ==
    LET mc == compute_challenge(block.challenge, miners[maddr].challenge)
        n == compute_recall_segment(mc, tapes[taddr].total_segments)
        seg == SegmentAt(taddr, n)
    IN [pow |-> [difficulty |-> epoch.mining_difficulty, challenge |-> mc,
                 segment |-> IF has_minimum_rent(tapes[taddr]) THEN seg
                             ELSE EMPTY_SEGMENT],
        poa |-> [difficulty |-> epoch.packing_difficulty,
                 miner |-> miners[maddr].authority, segment |-> seg,
                 path |-> HonestProof(taddr, n)]]

\* The solutions submitted: the honest one and the ones that depart from it
\* in one respect (or claim another segment throughout).
Solutions(maddr, taddr) ==
    IF maddr \notin DOMAIN miners \/ taddr \notin DOMAIN tapes
    THEN {[pow |-> [difficulty |-> 0, challenge |-> 0, segment |-> EMPTY_SEGMENT],
           poa |-> [difficulty |-> 0, miner |-> maddr[1], segment |-> EMPTY_SEGMENT,
                    path |-> ZeroPath]]}
    ELSE LET h == HonestSolution(maddr, taddr) IN
         {h}
         \cup {[h EXCEPT !.pow.difficulty = saturating_sub(@, 1)],
               [h EXCEPT !.poa.difficulty = saturating_sub(@, 1)],
               [h EXCEPT !.pow.challenge = (@ + 1) % HashSpace]}
         \cup {[h EXCEPT !.pow.segment = s] : s \in SegmentValues}
         \cup {[h EXCEPT !.poa.segment = s] : s \in SegmentValues}
         \cup {[h EXCEPT !.pow.segment = s, !.poa.segment = s] : s \in SegmentValues}
         \cup {[h EXCEPT !.poa.miner = a] : a \in Signers}
         \cup {[h EXCEPT !.poa.path = p] : p \in Proofs(taddr) \ {ShortPath}}

NextTick ==
    /\ budget.ticks < MaxTicks
    /\ \E d \in TickDurations : Tick(d)
    /\ budget' = [budget EXCEPT !.ticks = @ + 1]

NextRegister ==
    /\ \E signer \in Signers, name \in MinerNames, addr \in NewMinerAddrs,
          slothash \in SlotHashes : Register(signer, name, addr, slothash)
    /\ UNCHANGED budget

NextCreate ==
    /\ \E signer \in Signers, name \in TapeNames, addr \in SpecTapeAddrs :
          TapeCreate(signer, name, addr)
    /\ UNCHANGED budget

\* In the instructions below the account checks are stated first, so that the
\* remaining inputs are drawn only when the accounts pass them.
NextWrite ==
    /\ \E signer \in Signers, addr \in SpecTapeAddrs :
          /\ TapeAccountsErr(signer, addr) = ""
          /\ \E data \in WriteData : TapeWrite(signer, addr, data)
    /\ UNCHANGED budget

NextUpdate ==
    /\ \E signer \in Signers, addr \in SpecTapeAddrs :
          /\ TapeAccountsErr(signer, addr) = ""
          /\ \E n \in SegmentNumbers, old_data \in SegmentValues,
                new_data \in SegmentValues, proof \in Proofs(addr) :
                TapeUpdate(signer, addr, n, old_data, new_data, proof)
    /\ UNCHANGED budget

NextSubsidize ==
    /\ budget.subsidies < MaxMiningSubsidies
    /\ \E signer \in Signers, addr \in SpecTapeAddrs :
          TapeSubsidize(signer, addr, FullSubsidy)
    /\ budget' = [budget EXCEPT !.subsidies = @ + 1]

NextFinalize ==
    /\ \E signer \in Signers, addr \in SpecTapeAddrs : TapeFinalize(signer, addr)
    /\ UNCHANGED budget

\* The history after an accepted submission: one more mine, and the block
\* number the submission leaves when it advanced the epoch.
\* The reward an accepted mine credits to its miner (none where the step is
\* the epoch's part of a mine alone).
Credited ==
    IF last'.miner \in DOMAIN miners
    THEN miners'[last'.miner].total_rewards - miners[last'.miner].total_rewards
    ELSE 0
\* block_of is the block.number the last accepted proof was accepted under,
\* block_rewards the rewards credited for the proofs accepted under it so far,
\* and block_rate the largest epoch.reward_rate in force at those proofs.
\* The reward calculate_reward computes for the proof of a step.
Rewarded ==
    calculate_reward(epoch, tapes[last'.tape],
                     update_multiplier(miners[last'.miner], block).multiplier)
Mined(b) ==
    LET same == b.block_of = block.number
        accepted == last'.op = "mine" /\ last'.miner \in MinerAddrs
        rate == Max(epoch.reward_rate,
                    IF block'.number = block.number THEN epoch'.reward_rate ELSE 0)
    IN [b EXCEPT !.mines = @ + 1,
                 !.epoch_began = IF epoch'.number # epoch.number
                                 THEN block'.number ELSE @,
                 !.block_of = block.number,
                 !.block_rewards = IF same THEN @ + Credited ELSE Credited,
                 !.block_rate = IF same THEN Max(@, rate) ELSE rate,
                 !.ledger = IF accepted
                            THEN [@ EXCEPT ![last'.miner] =
                                     [@ EXCEPT !.proofs = @ + 1,
                                               !.rewards = @ + Rewarded]]
                            ELSE @]

NextMine ==
    /\ budget.mines < MaxMines
    /\ \E signer \in Signers, maddr \in MinerAddrs, taddr \in SpecTapeAddrs :
          /\ MineAccountsErr(signer, maddr, taddr) = ""
          /\ \E slothash \in SlotHashes, sol \in Solutions(maddr, taddr) :
                Mine(signer, maddr, taddr, sol.pow, sol.poa, slothash)
    /\ budget' = Mined(budget)

\* ------------------------------------------------- a long single-miner run
\* One miner registers after initialize and then mines the genesis tape once
\* per tick, honestly, for ChainMines submissions: the deterministic history
\* that carries the program through a hundred epochs.
ChainMines == 1100
ChainMiner == miner_pda("payer", "m")
ChainTick == BLOCK_DURATION_SECONDS + 1

InitChain ==
    /\ InitGenesis
    /\ block = InitBlock(0)

ChainRegister ==
    /\ ChainMiner \notin DOMAIN miners
    /\ Register("payer", "m", ChainMiner, 0)
    /\ UNCHANGED budget

ChainClock ==
    /\ ChainMiner \in DOMAIN miners
    /\ last.op # "tick"
    /\ budget.mines < ChainMines
    /\ Tick(ChainTick)
    /\ budget' = [budget EXCEPT !.ticks = @ + 1]

ChainMine ==
    /\ last.op = "tick"
    /\ LET h == HonestSolution(ChainMiner, GenesisTape)
       IN Mine("payer", ChainMiner, GenesisTape, h.pow, h.poa, 0)
    /\ budget' = Mined(budget)

NextChain ==
    \/ ChainRegister
    \/ ChainClock
    \/ ChainMine

SpecChain == InitChain /\ [][NextChain]_vars

\* The accounts at the end of that run: epoch 101 has just begun with a target
\* participation of 2, and the rent charged at every submission has emptied
\* the genesis tape.  (ChainReachesLate, an invariant of SpecChain.)
LateAccounts ==
    /\ archive = [tapes_stored |-> 1, segments_stored |-> 1]
    /\ epoch = [number |-> 101, progress |-> 0, target_participation |-> 2,
                mining_difficulty |-> 1, packing_difficulty |-> MIN_PACKING_DIFFICULTY,
                reward_rate |-> 100100, duplicates |-> 0, last_epoch_at |-> 67100]
    /\ block = [number |-> 1095, progress |-> 0, last_proof_at |-> 67100,
                last_block_at |-> 67100, challenge |-> 3, challenge_set |-> 1]
    /\ tapes = (GenesisTape :> [GenesisFinalized.tape EXCEPT !.balance = 0])
    /\ writers = << >>
    /\ miners = (ChainMiner :>
          [authority |-> "payer", name |-> "m", unclaimed_rewards |-> 104393130,
           challenge |-> 1, commitment |-> ZeroHash, multiplier |-> 32,
           last_proof_block |-> 1094, last_proof_at |-> 67100,
           total_proofs |-> 1100, total_rewards |-> 104393130])
    /\ clock = [unix_timestamp |-> 67100, slot |-> 1100]
    /\ segments = [NoSegments EXCEPT ![GenesisTape] = GenesisData]
    /\ finalizations = <<[tape |-> GenesisTape, block |-> 1]>>
    /\ NoSpools

ChainReachesLate == (budget.mines = ChainMines) => LateAccounts

InitLate ==
    /\ LateAccounts
    /\ last = Done("mine", GenesisTape, ChainMiner)
    /\ budget = [NoBudget EXCEPT
                     !.epoch_began = block.number,
                     !.ledger[ChainMiner] =
                         [proofs |-> miners[ChainMiner].total_proofs,
                          rewards |-> miners[ChainMiner].total_rewards,
                          claimed |-> 0]]

\* ------------------------------------------------------- the specification
\* The program is followed from the state initialize leaves and from the
\* state the long run above leaves.
Init == InitGenesis \/ InitLate

Next ==
    \/ NextTick
    \/ NextRegister
    \/ NextCreate
    \/ NextWrite
    \/ NextUpdate
    \/ NextSubsidize
    \/ NextFinalize
    \/ NextMine

Spec == Init /\ [][Next]_vars

\* ------------------------------------------------ the tape instructions alone
\* The tape instructions on every tape address, either owner's, without
\* mining: several tapes are written, funded and finalized side by side.
TapesCreate ==
    /\ \E signer \in Signers, name \in TapeNames, addr \in TapeAddrs :
          TapeCreate(signer, name, addr)
    /\ UNCHANGED budget

TapesWrite ==
    /\ \E signer \in Signers, addr \in TapeAddrs :
          /\ TapeAccountsErr(signer, addr) = ""
          /\ \E data \in WriteData : TapeWrite(signer, addr, data)
    /\ UNCHANGED budget

TapesUpdate ==
    /\ \E signer \in Signers, addr \in TapeAddrs :
          /\ TapeAccountsErr(signer, addr) = ""
          /\ \E n \in SegmentNumbers, old_data \in SegmentValues,
                new_data \in SegmentValues, proof \in Proofs(addr) :
                TapeUpdate(signer, addr, n, old_data, new_data, proof)
    /\ UNCHANGED budget

TapesSubsidize ==
    /\ budget.subsidies < MaxSubsidies
    /\ \E signer \in Signers, addr \in TapeAddrs, amount \in SubsidyAmounts :
          TapeSubsidize(signer, addr, amount)
    /\ budget' = [budget EXCEPT !.subsidies = @ + 1]

TapesFinalize ==
    /\ \E signer \in Signers, addr \in TapeAddrs : TapeFinalize(signer, addr)
    /\ UNCHANGED budget

NextTapes ==
    \/ TapesCreate
    \/ TapesWrite
    \/ TapesUpdate
    \/ TapesSubsidize
    \/ TapesFinalize

SpecTapes == InitGenesis /\ [][NextTapes]_vars

\* ------------------------------------------------ the rent charge alone
\* update_tape_balance applied to a finalized tape of any size and balance at
\* block numbers that range up to the ones where its rent since block 0
\* passes the machine word.  last_rent_block is 0, as create leaves it: no
\* instruction writes it.
MaxRentSpan == 10
WordBlocks == (U64_MAX + 1) \div (MAX_SEGMENTS_PER_TAPE * RENT_PER_SEGMENT)
RentBlocks == {1, BLOCKS_PER_YEAR} \cup {WordBlocks + k : k \in 0..MaxRentSpan}
RentBalances == {0, RENT_PER_SEGMENT, min_finalization_rent(1), U64_MAX}

InitRent ==
    /\ \E number \in RentBlocks : block = [InitBlock(0) EXCEPT !.number = number]
    /\ \E total \in 1..MAX_SEGMENTS_PER_TAPE, balance \in RentBalances :
          tapes = (GenesisTape :> [GenesisFinalized.tape EXCEPT
                                       !.total_segments = total,
                                       !.balance = balance])
    /\ epoch = InitEpoch
    /\ archive = GenesisFinalized.archive
    /\ writers = << >>
    /\ miners = << >>
    /\ clock = [unix_timestamp |-> 0, slot |-> 0]
    /\ last = Done("initialize", NoAccount, NoAccount)
    /\ segments = [NoSegments EXCEPT ![GenesisTape] = GenesisData]
    /\ finalizations = <<[tape |-> GenesisTape, block |-> 1]>>
    /\ NoSpools
    /\ budget = NoBudget

RentCharge ==
    /\ last.op = "initialize"
    /\ tapes' = [tapes EXCEPT ![GenesisTape] = update_tape_balance(@, block.number)]
    /\ last' = Done("update_tape_balance", GenesisTape, NoAccount)
    /\ UNCHANGED <<archive, epoch, block, writers, miners, clock, segments,
                   finalizations, spool_vars, budget>>

SpecRent == InitRent /\ [][RentCharge]_vars

\* ------------------------------------------------ the reward calculation alone
\* calculate_reward applied, for one epoch record and one multiplier, to a
\* tape that holds a block's rent and to the same tape one unit short of it.
\* The reward rates are the ones update_epoch produces: a base rate plus the
\* storage rate of the archive.
MaxRewardSegments == 2
MaxRewardTarget == 3
RewardEpochs == {1, EPOCHS_PER_YEAR, 24 * EPOCHS_PER_YEAR, 25 * EPOCHS_PER_YEAR}
RewardRates ==
    {saturating_add(block_reward([tapes_stored |-> 1, segments_stored |-> s]),
                    get_base_rate(n)) : s \in 0..MaxRewardSegments, n \in RewardEpochs}
RewardTargets == MIN_PARTICIPATION_TARGET..MaxRewardTarget
RewardMultipliers == MIN_CONSISTENCY_MULTIPLIER..MAX_CONSISTENCY_MULTIPLIER
SolventTape == GenesisTape
ShortTape == tape_pda("alice", "a")
SolventMiner == miner_pda("payer", "m")
ShortMiner == miner_pda("alice", "m")
NewMiner(signer, name, multiplier) ==
    [authority |-> signer, name |-> name, unclaimed_rewards |-> 0,
     challenge |-> 0, commitment |-> ZeroHash, multiplier |-> multiplier,
     last_proof_block |-> 0, last_proof_at |-> 0,
     total_proofs |-> 0, total_rewards |-> 0]

InitReward ==
    /\ \E rate \in RewardRates, target \in RewardTargets :
          epoch = [InitEpoch EXCEPT !.reward_rate = rate,
                                    !.target_participation = target]
    /\ \E multiplier \in RewardMultipliers :
          miners = (SolventMiner :> NewMiner("payer", "m", multiplier))
                   @@ (ShortMiner :> NewMiner("alice", "m", multiplier))
    /\ tapes = (SolventTape :> [GenesisFinalized.tape EXCEPT
                                    !.balance = rent_per_block(GenesisFinalized.tape)])
               @@ (ShortTape :> [GenesisFinalized.tape EXCEPT
                                    !.authority = "alice", !.name = "a", !.number = 2,
                                    !.balance = rent_per_block(GenesisFinalized.tape) - 1])
    /\ block = InitBlock(0)
    /\ archive = [tapes_stored |-> 2, segments_stored |-> 2]
    /\ writers = << >>
    /\ clock = [unix_timestamp |-> 0, slot |-> 0]
    /\ last = Done("initialize", NoAccount, NoAccount)
    /\ segments = [NoSegments EXCEPT ![SolventTape] = GenesisData,
                                    ![ShortTape] = GenesisData]
    /\ finalizations = <<[tape |-> SolventTape, block |-> 1],
                         [tape |-> ShortTape, block |-> 1]>>
    /\ NoSpools
    /\ budget = NoBudget

\* The reward of the miner for the tape is computed and credited.
RewardCredit(maddr, taddr) ==
    /\ miners[maddr].total_proofs = 0
    /\ ~calculate_reward_panics(epoch, miners[maddr].multiplier)
    /\ miners' = [miners EXCEPT ![maddr] =
          [@ EXCEPT !.unclaimed_rewards =
                        calculate_reward(epoch, tapes[taddr], miners[maddr].multiplier),
                    !.total_proofs = 1]]
    /\ last' = Done("calculate_reward", taddr, maddr)
    /\ UNCHANGED <<archive, epoch, block, tapes, writers, clock, segments,
                   finalizations, spool_vars, budget>>

RewardSolvent == RewardCredit(SolventMiner, SolventTape)
RewardShort == RewardCredit(ShortMiner, ShortTape)

NextReward ==
    \/ RewardSolvent
    \/ RewardShort

SpecReward == InitReward /\ [][NextReward]_vars

\* ------------------------------------------------------- epoch specification
\* update_epoch on its own: the epoch account is taken at the epochs where
\* its rules change (the first, a multiple of the adjustment interval, the
\* ones at which the participation target can have reached its cap, the last
\* of the first emission year), as far into the epoch as the quota or fresh,
\* and submissions then reach update_epoch at chosen times.
MaxEpochMines == 2
MaxEpochTicks == 2
MaxEpochSegments == 2
EpochNumbers ==
    {1, ADJUSTMENT_INTERVAL, ADJUSTMENT_INTERVAL + 1,
     (MAX_PARTICIPATION_TARGET - 1) * ADJUSTMENT_INTERVAL,
     MAX_PARTICIPATION_TARGET * ADJUSTMENT_INTERVAL,
     EPOCHS_PER_YEAR - 1}
EpochProgresses == {0, EPOCH_BLOCKS - 1, EPOCH_BLOCKS}
EpochTargets ==
    {MIN_PARTICIPATION_TARGET, MIN_PARTICIPATION_TARGET + 1,
     MAX_PARTICIPATION_TARGET - 1, MAX_PARTICIPATION_TARGET}
EpochDifficulties == {MIN_MINING_DIFFICULTY, MIN_MINING_DIFFICULTY + 1}
EpochTicks == {1, EPOCH_BLOCKS * BLOCK_DURATION_SECONDS - 1}

\* The target has been raised at most once per closed epoch whose number is a
\* multiple of the adjustment interval, the difficulty at most once per closed
\* epoch.
EpochReachable(number, target, difficulty) ==
    /\ target <= MIN_PARTICIPATION_TARGET + (number - 1) \div ADJUSTMENT_INTERVAL
    /\ difficulty <= MIN_MINING_DIFFICULTY + (number - 1)

InitEpochs ==
    /\ \E number \in EpochNumbers, progress \in EpochProgresses,
          target \in EpochTargets, difficulty \in EpochDifficulties,
          duplicates \in 0..1, stored \in 1..MaxEpochSegments,
          stored_at_advance \in 1..MaxEpochSegments :
          /\ EpochReachable(number, target, difficulty)
          /\ stored_at_advance <= stored
          /\ duplicates <= progress
          /\ archive = [tapes_stored |-> stored, segments_stored |-> stored]
          /\ epoch = [InitEpoch EXCEPT
                 !.number = number, !.progress = progress,
                 !.target_participation = target,
                 !.mining_difficulty = difficulty,
                 !.duplicates = duplicates,
                 !.reward_rate =
                     saturating_add(
                         block_reward([tapes_stored |-> stored_at_advance,
                                       segments_stored |-> stored_at_advance]),
                         get_base_rate(number))]
    /\ block = InitBlock(0)
    /\ tapes = (GenesisTape :> GenesisFinalized.tape)
    /\ writers = << >>
    /\ miners = << >>
    /\ clock = [unix_timestamp |-> 0, slot |-> 0]
    /\ last = Done("initialize", NoAccount, NoAccount)
    /\ segments = [NoSegments EXCEPT ![GenesisTape] = GenesisData]
    /\ finalizations = <<[tape |-> GenesisTape, block |-> 1]>>
    /\ NoSpools
    /\ budget = NoBudget

EpochClock ==
    /\ budget.ticks < MaxEpochTicks
    /\ \E d \in EpochTicks : Tick(d)
    /\ budget' = [budget EXCEPT !.ticks = @ + 1]
    /\ UNCHANGED <<archive, epoch, block, tapes, writers, miners, segments,
                   finalizations, spool_vars>>

\* What an accepted submission does to the epoch account: check_submission
\* counts it when it is the duplicate of a stalled block, update_epoch follows.
EpochMine(duplicate) ==
    /\ budget.mines < MaxEpochMines
    /\ epoch' = update_epoch(
                    IF duplicate
                    THEN [epoch EXCEPT !.duplicates = saturating_add(@, 1)]
                    ELSE epoch,
                    archive, clock.unix_timestamp)
    /\ last' = Done(IF duplicate THEN "duplicate" ELSE "mine", GenesisTape, NoAccount)
    /\ UNCHANGED <<archive, block, tapes, writers, miners, clock, segments,
                   finalizations, spool_vars>>
    /\ budget' = Mined(budget)

EpochMineFresh == EpochMine(FALSE)
EpochMineDuplicate == EpochMine(TRUE)

NextEpochs ==
    \/ EpochClock
    \/ EpochMineFresh
    \/ EpochMineDuplicate

SpecEpochs == InitEpochs /\ [][NextEpochs]_vars

\* ------------------------------------------------ submissions, failed or not
\* Every mine submission is processed, the rejected ones too: process_mine
\* works on the account data in place and returns Ok or Err, and the runtime
\* keeps the accounts the instruction wrote only when it returned Ok.  The run
\* starts where the long run ended (a participation target of 2, so that a
\* block stays open after a submission).
MaxSubmissions == 3

\* Variant: what the handler wrote is kept whatever it returned.
Committed_on_failure(err, before, written) == written


\* The account the runtime keeps after an instruction that returned err.
Committed(err, before, written) == IF err = "" THEN written ELSE before

Submit(signer, maddr, taddr, pow, poa, slothash) ==
    /\ LET r == DoMine(epoch, block, archive, tapes[taddr], miners[maddr],
                       clock.unix_timestamp, pow, poa, slothash) IN
            /\ epoch' = Committed(r.err, epoch, r.epoch)
            /\ block' = Committed(r.err, block, r.block)
            /\ tapes' = Committed(r.err, tapes, [tapes EXCEPT ![taddr] = r.tape])
            /\ miners' = Committed(r.err, miners, [miners EXCEPT ![maddr] = r.miner])
            /\ last' = Done(IF r.err = "" THEN "mine" ELSE r.err, taddr, maddr)
    /\ UNCHANGED <<archive, writers, clock, segments, finalizations, spool_vars>>

InitSubmit == InitLate

SubmitMine ==
    /\ budget.mines < MaxSubmissions
    /\ \E signer \in Signers, maddr \in MinerAddrs, taddr \in SpecTapeAddrs :
          /\ MineAccountsErr(signer, maddr, taddr) = ""
          /\ \E slothash \in SlotHashes, sol \in Solutions(maddr, taddr) :
                Submit(signer, maddr, taddr, sol.pow, sol.poa, slothash)
    /\ budget' = Mined(budget)

NextSubmit ==
    \/ NextTick
    \/ NextRegister
    \/ NextCreate
    \/ SubmitMine

SpecSubmit == InitSubmit /\ [][NextSubmit]_vars

\* ------------------------------------------------- counters near the top
\* One miner whose counters stand at or next to the top of the word mines the
\* genesis tape honestly.  The build decides what an overflowing `+=` does:
\* with overflow checks the instruction panics, without them the sum wraps.
MaxCounterMines == 2
CounterValues == {0, U64_MAX - 1, U64_MAX}

InitCounters ==
    /\ block = InitBlock(0)
    /\ epoch = InitEpoch
    /\ archive = GenesisFinalized.archive
    /\ tapes = (GenesisTape :> GenesisFinalized.tape)
    /\ writers = << >>
    /\ clock = [unix_timestamp |-> 0, slot |-> 0]
    /\ last = Done("register", NoAccount, ChainMiner)
    /\ segments = [NoSegments EXCEPT ![GenesisTape] = GenesisData]
    /\ finalizations = <<[tape |-> GenesisTape, block |-> 1]>>
    /\ NoSpools
    /\ budget = NoBudget
    /\ \E unclaimed \in CounterValues, rewards \in CounterValues,
          proofs \in CounterValues, multiplier \in RewardMultipliers :
          /\ unclaimed <= rewards
          /\ miners = (ChainMiner :>
                [NewMiner("payer", "m", multiplier) EXCEPT
                    !.unclaimed_rewards = unclaimed,
                    !.total_rewards = rewards,
                    !.total_proofs = proofs])

CounterMine(overflow_checks) ==
    /\ budget.mines < MaxCounterMines
    /\ LET h == HonestSolution(ChainMiner, GenesisTape)
           r == DoMine(epoch, block, archive, tapes[GenesisTape], miners[ChainMiner],
                       clock.unix_timestamp, h.pow, h.poa, 0)
           panics == /\ overflow_checks
                     /\ update_miner_state_overflows(
                            update_multiplier(miners[ChainMiner], block), r.reward)
       IN /\ r.err = ""
          /\ epoch' = Committed(IF panics THEN "panic" ELSE "", epoch, r.epoch)
          /\ block' = Committed(IF panics THEN "panic" ELSE "", block, r.block)
          /\ tapes' = Committed(IF panics THEN "panic" ELSE "", tapes,
                                [tapes EXCEPT ![GenesisTape] = r.tape])
          /\ miners' = Committed(IF panics THEN "panic" ELSE "", miners,
                                 [miners EXCEPT ![ChainMiner] = r.miner])
          /\ last' = Done(IF panics THEN "panic" ELSE "mine", GenesisTape, ChainMiner)
    /\ UNCHANGED <<archive, writers, clock, segments, finalizations, spool_vars>>
    /\ budget' = Mined(budget)

CounterMineUnchecked == CounterMine(FALSE)
CounterMineChecked == CounterMine(TRUE)

NextCounters ==
    \/ CounterMineUnchecked
    \/ CounterMineChecked

SpecCounters == InitCounters /\ [][NextCounters]_vars

\* ------------------------------------------------------------------- claim
\* process_claim.  The token transfer out of the treasury is a call into the
\* token program, whose outcome (the treasury holds the amount or does not)
\* is an input here.
MaxClaims == 2

ClaimAccountsErr(signer, maddr) ==
    IF maddr \notin DOMAIN miners THEN "InvalidAccountData"
    ELSE IF miners[maddr].authority # signer THEN "MissingRequiredSignature"
    ELSE ""

\* Variant: an amount of zero claims nothing.
DoClaim_zero_is_nothing(miner, args_amount, transferred) ==
    IF args_amount > miner.unclaimed_rewards
    THEN [err |-> "ClaimTooLarge", miner |-> miner, amount |-> 0]
    ELSE [err |-> IF transferred THEN "" ELSE "TransferFailed",
          miner |-> [miner EXCEPT !.unclaimed_rewards = @ - args_amount],
          amount |-> args_amount]


DoClaim(miner, args_amount, transferred) ==
    LET amount == IF args_amount = 0 THEN miner.unclaimed_rewards ELSE args_amount
    IN IF amount > miner.unclaimed_rewards
       THEN [err |-> "ClaimTooLarge", miner |-> miner, amount |-> 0]
       ELSE [err |-> IF transferred THEN "" ELSE "TransferFailed",
             miner |-> [miner EXCEPT !.unclaimed_rewards = @ - amount],
             amount |-> amount]

Claim(signer, maddr, args_amount, transferred) ==
    /\ ClaimAccountsErr(signer, maddr) = ""
    /\ LET r == DoClaim(miners[maddr], args_amount, transferred) IN
          /\ miners' = Committed(r.err, miners, [miners EXCEPT ![maddr] = r.miner])
          /\ last' = Done(IF r.err = "" THEN "claim" ELSE r.err, NoAccount, maddr)
    /\ UNCHANGED <<archive, epoch, block, tapes, writers, clock, segments,
                   finalizations, spool_vars>>

\* The amounts asked for: everything (zero), one unit, the whole balance, one
\* unit more than the balance, the largest amount.
ClaimAmounts(maddr) ==
    {0, 1, miners[maddr].unclaimed_rewards,
     Min(miners[maddr].unclaimed_rewards + 1, U64_MAX), U64_MAX}

InitClaim == InitLate

\* The ledger after a claim: what the token transfer paid out is added.
Claimed(b, maddr, r) ==
    [b EXCEPT !.claims = @ + 1,
              !.ledger[maddr].claimed = @ + (IF r.err = "" THEN r.amount ELSE 0)]

NextClaim ==
    /\ budget.claims < MaxClaims
    /\ \E signer \in Signers, maddr \in MinerAddrs :
          /\ ClaimAccountsErr(signer, maddr) = ""
          /\ \E args_amount \in ClaimAmounts(maddr), transferred \in BOOLEAN :
                /\ Claim(signer, maddr, args_amount, transferred)
                /\ budget' = Claimed(budget, maddr,
                                     DoClaim(miners[maddr], args_amount, transferred))

NextClaims ==
    \/ NextRegister
    \/ NextMine
    \/ NextClaim

SpecClaim == InitClaim /\ [][NextClaims]_vars

\* =================================================================== claims
\* In the action formulas a step of the instruction `op` is one that leaves
\* last.op = op; last.tape and last.miner are the accounts it was given.

\* C1: a miner whose last_proof_block equals block.number is accepted only
\* when current_time > block.last_proof_at + BLOCK_DURATION_SECONDS, and an
\* accepted submission of such a miner adds exactly 1 to epoch.duplicates
\* (the epoch boundary, when the same submission reaches it, counts the
\* duplicate in adjust_participation and resets the counter); a miner whose
\* last_proof_block differs never adds to epoch.duplicates.
C1_DuplicateSubmission ==
    [][last'.op = "mine" =>
        LET miner == miners[last'.miner]
            duplicate == miner.last_proof_block = block.number
            stalled == clock.unix_timestamp >
                           block.last_proof_at + BLOCK_DURATION_SECONDS
            boundary == epoch'.number # epoch.number
        IN /\ duplicate => stalled
           /\ (duplicate /\ ~boundary) => epoch'.duplicates = epoch.duplicates + 1
           /\ (duplicate /\ boundary) =>
                  /\ epoch'.duplicates = 0
                  /\ epoch'.target_participation =
                         Max(epoch.target_participation - 1, MIN_PARTICIPATION_TARGET)
           /\ (~duplicate /\ ~boundary) => epoch'.duplicates = epoch.duplicates
           /\ (~duplicate /\ boundary) => epoch'.duplicates = 0]_vars

\* C1 witness: a duplicate submission was accepted and counted.
C1_Witness == last.op = "mine" /\ epoch.duplicates = 1

\* The miner challenge and the recall indices, as the claims state them.
MinerChallengeOf(maddr) == Blake3(block.challenge, miners[maddr].challenge)
RecallTapeOf(maddr) ==
    IF block.challenge_set = 0 THEN 1
    ELSE (Word0(MinerChallengeOf(maddr)) % block.challenge_set) + 1
RecallSegmentOf(maddr, taddr) ==
    IF tapes[taddr].total_segments = 0 THEN 0
    ELSE Word1(MinerChallengeOf(maddr)) % tapes[taddr].total_segments
Funded(taddr) ==
    tapes[taddr].balance >= tapes[taddr].total_segments * RENT_PER_SEGMENT

\* What C2 requires of a solution submitted by maddr against taddr.
SolutionProves(maddr, taddr, sol) ==
    IF Funded(taddr)
    THEN LET seg == poa_unpack(sol.poa, miners[maddr].authority)
         IN /\ FoldPath(Leaf(RecallSegmentOf(maddr, taddr), seg), sol.poa.path)
                   = tapes[taddr].merkle_root
            /\ sol.pow.challenge = MinerChallengeOf(maddr)
            /\ sol.pow.segment = seg
    ELSE /\ sol.pow.challenge = MinerChallengeOf(maddr)
         /\ sol.pow.segment = EMPTY_SEGMENT

\* C2: a submission against a tape that holds a block's rent is accepted only
\* if its Merkle path resolves the leaf (recall segment index, unpacked
\* segment) to tape.merkle_root and its PoW is valid for the miner challenge
\* and that segment; against a tape below a block's rent only the PoW for the
\* all-zero segment is required; a solution of sufficient difficulty that fails
\* this is refused with SolutionInvalid.
C2_Refused ==
    \A maddr \in DOMAIN miners, taddr \in DOMAIN tapes :
        \A sol \in Solutions(maddr, taddr) :
            LET e == verify_solution(epoch, tapes[taddr], miners[maddr].authority,
                                     MinerChallengeOf(maddr), sol.pow, sol.poa)
                hard == /\ sol.pow.difficulty >= epoch.mining_difficulty
                        /\ sol.poa.difficulty >= epoch.packing_difficulty
            IN (hard /\ ~SolutionProves(maddr, taddr, sol)) => e = "SolutionInvalid"

C2_Accepted ==
    last'.op = "mine" =>
        \A slothash \in SlotHashes, sol \in Solutions(last'.miner, last'.tape) :
            Mine(miners[last'.miner].authority, last'.miner, last'.tape,
                 sol.pow, sol.poa, slothash)
                => SolutionProves(last'.miner, last'.tape, sol)

C2_SolutionVerified == [](C2_Refused) /\ [][C2_Accepted]_vars

\* C2 witness: a funded tape of two segments was mined.
C2_Witness ==
    /\ last.op = "mine"
    /\ has_minimum_rent(tapes[last.tape])
    /\ tapes[last.tape].total_segments = 2

\* C3: a submission is accepted only against the tape whose number is the
\* recall index derived from H(block.challenge, miner.challenge) and
\* block.challenge_set; against any other tape it is refused with
\* UnexpectedTape.
C3_Refused ==
    \A maddr \in DOMAIN miners, taddr \in DOMAIN tapes :
        \A sol \in Solutions(maddr, taddr), slothash \in SlotHashes :
            LET r == DoMine(epoch, block, archive, tapes[taddr], miners[maddr],
                            clock.unix_timestamp, sol.pow, sol.poa, slothash)
                passed == check_submission(miners[maddr], block, epoch,
                                           clock.unix_timestamp).err = ""
            IN (passed /\ tapes[taddr].number # RecallTapeOf(maddr))
                   => r.err = "UnexpectedTape"

C3_Accepted ==
    last'.op = "mine" => tapes[last'.tape].number = RecallTapeOf(last'.miner)

C3_RecallTape == [](C3_Refused) /\ [][C3_Accepted]_vars

\* C3 witness: the second tape of the archive was mined.
C3_Witness == last.op = "mine" /\ tapes[last.tape].number = 2

\* C4: in every state 1 <= block.challenge_set <= archive.tapes_stored, so
\* every recall index lies in 1..tapes_stored and is the number of a
\* finalized tape.
C4_ChallengeSet ==
    /\ 1 <= block.challenge_set
    /\ block.challenge_set <= archive.tapes_stored
    /\ \A c \in Digests :
          LET i == compute_recall_tape(c, block.challenge_set)
          IN /\ i \in 1..archive.tapes_stored
             /\ \E taddr \in DOMAIN tapes :
                   tapes[taddr].state = Finalized /\ tapes[taddr].number = i

\* C4 witness: the challenge set grew to two tapes.
C4_Witness == block.challenge_set = 2

\* The tapes that are finalized.
FinalizedTapes == {taddr \in DOMAIN tapes : tapes[taddr].state = Finalized}

\* C5: a tape that is not Finalized has number 0; the Finalized tapes carry
\* pairwise distinct numbers, exactly 1..archive.tapes_stored, in the order
\* of their finalization; the number of a Finalized tape never changes.
C5_Numbered ==
    /\ \A taddr \in DOMAIN tapes \ FinalizedTapes : tapes[taddr].number = 0
    /\ {tapes[taddr].number : taddr \in FinalizedTapes} = 1..archive.tapes_stored
    /\ \A t1 \in FinalizedTapes, t2 \in FinalizedTapes :
          tapes[t1].number = tapes[t2].number => t1 = t2
    /\ Len(finalizations) = archive.tapes_stored
    /\ \A k \in 1..Len(finalizations) : tapes[finalizations[k].tape].number = k

C5_Kept ==
    \A taddr \in FinalizedTapes :
        taddr \in DOMAIN tapes' /\ tapes'[taddr].number = tapes[taddr].number

C5_TapeNumbers == [](C5_Numbered) /\ [][C5_Kept]_vars

\* C5 witness: three tapes are finalized.
C5_Witness == archive.tapes_stored = 3 /\ Cardinality(FinalizedTapes) = 3

\* The rent of a year for the tape, as C6 states it.
YearRent(taddr) == tapes[taddr].total_segments * RENT_PER_SEGMENT * BLOCKS_PER_YEAR
Finalizable(taddr) ==
    tapes[taddr].state = Writing /\ tapes[taddr].balance >= YearRent(taddr)

\* C6: finalize succeeds only on a tape whose state is Writing and whose
\* balance is at least total_segments * RENT_PER_SEGMENT * BLOCKS_PER_YEAR;
\* otherwise it fails and leaves tape, writer and archive as they were.
C6_Refused ==
    \A signer \in Signers, taddr \in DOMAIN tapes :
        ~Finalizable(taddr) =>
            /\ FinalizeErr(signer, taddr) # ""
            /\ LET r == DoFinalize(tapes[taddr], archive)
               IN r.err # "" /\ r.tape = tapes[taddr] /\ r.archive = archive

C6_Accepted ==
    /\ last'.op = "finalize" => Finalizable(last'.tape)
    /\ last'.op # "finalize" => (archive' = archive /\ DOMAIN writers \subseteq DOMAIN writers')

C6_FinalizeGuard == [](C6_Refused) /\ [][C6_Accepted]_vars

\* C6 witness: a tape of two segments was finalized.
C6_Witness == last.op = "finalize" /\ tapes[last.tape].total_segments = 2

\* C7: the state of a tape only moves Created -> Writing -> Finalized; once
\* it is Finalized no write, update or finalize succeeds on it and its state,
\* merkle_root, total_segments and number stay as they are.
C7_Refused ==
    \A signer \in Signers, taddr \in FinalizedTapes :
        /\ \A data \in WriteData : WriteErr(signer, taddr, data) # ""
        /\ \A n \in SegmentNumbers, old_data \in SegmentValues,
              new_data \in SegmentValues, proof \in Proofs(taddr) :
              UpdateErr(signer, taddr, n, old_data, new_data, proof) # ""
        /\ FinalizeErr(signer, taddr) # ""

C7_Step ==
    /\ \A taddr \in DOMAIN tapes :
          /\ taddr \in DOMAIN tapes'
          /\ \/ tapes'[taddr].state = tapes[taddr].state
             \/ tapes[taddr].state = Created /\ tapes'[taddr].state = Writing
             \/ tapes[taddr].state = Writing /\ tapes'[taddr].state = Finalized
          /\ tapes[taddr].state = Finalized =>
                /\ tapes'[taddr].state = Finalized
                /\ tapes'[taddr].merkle_root = tapes[taddr].merkle_root
                /\ tapes'[taddr].total_segments = tapes[taddr].total_segments
                /\ tapes'[taddr].number = tapes[taddr].number
    /\ \A taddr \in DOMAIN tapes' \ DOMAIN tapes : tapes'[taddr].state = Created
    /\ last'.op \in {"write", "update", "finalize"} =>
          tapes[last'.tape].state # Finalized

C7_Lifecycle == [](C7_Refused) /\ [][C7_Step]_vars

\* C7 witness: a tape written by its owner was finalized and then funded.
C7_Witness ==
    /\ last.op = "subsidize"
    /\ last.tape # GenesisTape
    /\ tapes[last.tape].state = Finalized

\* C8: a tape leaves Created for Writing only by a write that appends at
\* least one segment, so every Writing or Finalized tape has
\* total_segments >= 1.
C8_Step ==
    \A taddr \in DOMAIN tapes :
        (tapes[taddr].state = Created /\ tapes'[taddr].state # Created) =>
            /\ last'.op = "write"
            /\ tapes'[taddr].total_segments >= tapes[taddr].total_segments + 1

C8_HasSegments ==
    \A taddr \in DOMAIN tapes :
        tapes[taddr].state \in {Writing, Finalized} => tapes[taddr].total_segments >= 1

C8_WritingHasSegments == [](C8_HasSegments) /\ [][C8_Step]_vars

\* C9: a tape finalized at block f holds a block's rent at every submission
\* against it at a block below f + BLOCKS_PER_YEAR.
C9_SolventForAYear ==
    [][last'.op = "mine" =>
        \A k \in 1..Len(finalizations) :
            (/\ finalizations[k].tape = last'.tape
             /\ block.number < finalizations[k].block + BLOCKS_PER_YEAR)
                => has_minimum_rent(tapes[last'.tape])]_vars

\* C10: the rent charge leaves balance = max(0, balance - total_segments *
\* RENT_PER_SEGMENT * (block.number - last_rent_block)), the product being
\* exact.
C10_ExactRent ==
    [][last'.op \in {"mine", "update_tape_balance"} =>
        LET tape == tapes[last'.tape]
            owed == tape.total_segments * RENT_PER_SEGMENT
                        * (block.number - tape.last_rent_block)
        IN tapes'[last'.tape].balance = Max(0, tape.balance - owed)]_vars

\* C11: the reward credited by an accepted mine is
\* floor(floor(reward_rate / target_participation) * multiplier / 32) with
\* the multiplier this submission leaves the miner, halved (rounding down)
\* when the tape does not hold a block's rent; target_participation is never
\* zero, so the division is defined.
C11_Credited ==
    last'.op = "mine" =>
        LET multiplier == miners'[last'.miner].multiplier
            available == epoch.reward_rate \div epoch.target_participation
            scaled == (available * multiplier) \div MAX_CONSISTENCY_MULTIPLIER
            credited == miners'[last'.miner].unclaimed_rewards
                            - miners[last'.miner].unclaimed_rewards
        IN /\ credited = IF Funded(last'.tape) THEN scaled ELSE scaled \div 2
           /\ miners'[last'.miner].total_rewards
                  = miners[last'.miner].total_rewards + credited

C11_Divisor == epoch.target_participation >= 1

C11_RewardFormula == [](C11_Divisor) /\ [][C11_Credited]_vars

\* C11 witness: a miner whose multiplier fell to 31 mined a tape without rent.
C11_Witness ==
    /\ last.op = "mine"
    /\ miners[last.miner].multiplier = MAX_CONSISTENCY_MULTIPLIER - 1
    /\ tapes[last.tape].balance = 0

\* The two rewards of SpecReward, once both are computed.
BothRewarded ==
    /\ SolventMiner \in DOMAIN miners /\ ShortMiner \in DOMAIN miners
    /\ miners[SolventMiner].total_proofs = 1 /\ miners[ShortMiner].total_proofs = 1
    /\ last.op = "calculate_reward"

\* C12 as stated: twice the reward for the tape below a block's rent equals
\* the reward for the same tape holding it.
C12_ExactHalf ==
    BothRewarded =>
        2 * miners[ShortMiner].unclaimed_rewards = miners[SolventMiner].unclaimed_rewards

\* C12 as the code has it: the reward for the tape below a block's rent is the
\* solvent reward halved rounding down, so twice it is the solvent reward or
\* one less.
C12_HalfRoundedDown ==
    BothRewarded =>
        /\ miners[ShortMiner].unclaimed_rewards
               = miners[SolventMiner].unclaimed_rewards \div 2
        /\ miners[SolventMiner].unclaimed_rewards
               - 2 * miners[ShortMiner].unclaimed_rewards \in {0, 1}

\* C12 witness: both rewards are computed and the solvent one is odd.
C12_Witness ==
    /\ BothRewarded
    /\ miners[SolventMiner].unclaimed_rewards % 2 = 1

\* C13: an accepted mine adds 1 to the miner's multiplier (at most
\* MAX_CONSISTENCY_MULTIPLIER) when last_proof_block + 1 = block.number and
\* otherwise subtracts 1 (at least MIN_CONSISTENCY_MULTIPLIER); a miner starts
\* at 0, every miner that has mined is inside [MIN, MAX], and the assertions
\* of get_scaled_reward hold for the multiplier any next mine would use.
C13_Updated ==
    last'.op = "mine" =>
        LET miner == miners[last'.miner]
        IN miners'[last'.miner].multiplier =
              IF miner.last_proof_block + 1 = block.number
              THEN Min(miner.multiplier + 1, MAX_CONSISTENCY_MULTIPLIER)
              ELSE Max(miner.multiplier - 1, MIN_CONSISTENCY_MULTIPLIER)

C13_InRange ==
    \A maddr \in DOMAIN miners :
        /\ miners[maddr].multiplier \in 0..MAX_CONSISTENCY_MULTIPLIER
        /\ miners[maddr].total_proofs = 0 => miners[maddr].multiplier = 0
        /\ miners[maddr].total_proofs >= 1 =>
               miners[maddr].multiplier >= MIN_CONSISTENCY_MULTIPLIER
        /\ scaled_reward_asserts(update_multiplier(miners[maddr], block).multiplier)

C13_Multiplier == [](C13_InRange) /\ [][C13_Updated]_vars

\* C13 witness: a miner at the floor mined again outside the block after its
\* last proof and stayed at the floor.
C13_Witness ==
    /\ last.op = "mine"
    /\ miners[last.miner].total_proofs = 2
    /\ miners[last.miner].multiplier = MIN_CONSISTENCY_MULTIPLIER

\* C14: an accepted mine adds 1 to block.progress; when that reaches
\* epoch.target_participation the same step resets progress to 0, adds 1 to
\* block.number, stamps last_proof_at and last_block_at with the current
\* time, rolls block.challenge with the slot-hash entropy and sets
\* challenge_set to archive.tapes_stored; otherwise number, challenge,
\* challenge_set and both timestamps stay as they are.
C14_Progress ==
    last'.op = "mine" =>
        IF block.progress + 1 >= epoch.target_participation
        THEN /\ block'.progress = 0
             /\ block'.number = block.number + 1
             /\ block'.last_proof_at = clock.unix_timestamp
             /\ block'.last_block_at = clock.unix_timestamp
             /\ \E slothash \in SlotHashes :
                   block'.challenge = compute_next_challenge(block.challenge, slothash)
             /\ block'.challenge_set = archive.tapes_stored
        ELSE block' = [block EXCEPT !.progress = block.progress + 1]

C14_BlockProgress == [][C14_Progress]_vars

\* C14 witness: a mine was accepted without completing the block.
C14_Witness ==
    /\ last.op = "mine"
    /\ budget.mines >= 1
    /\ block.progress = 1

\* The end-to-end scenario of C15, before its mine: nothing was mined since
\* initialize, the miner is as registration left it, and a tape of one
\* segment was created, funded with a year's rent and finalized.
ScenarioReady(maddr) ==
    /\ epoch = InitEpoch
    /\ block.number = 1 /\ block.progress = 0
    /\ miners[maddr].total_proofs = 0
    /\ miners[maddr].multiplier = 0
    /\ miners[maddr].unclaimed_rewards = 0
    /\ \E taddr \in DOMAIN tapes \ {GenesisTape} :
          /\ tapes[taddr].state = Finalized
          /\ tapes[taddr].total_segments = 1
          /\ tapes[taddr].balance >= min_finalization_rent(1)

\* C15: in that scenario the first accepted mine leaves total_proofs = 1,
\* unclaimed_rewards > 0 and block.progress one more than before.
C15_FirstMine ==
    [][(last'.op = "mine" /\ ScenarioReady(last'.miner)) =>
          /\ miners'[last'.miner].total_proofs = 1
          /\ miners'[last'.miner].unclaimed_rewards > 0
          /\ block'.progress = block.progress + 1]_vars

\* What the first mine of the scenario does leave: the miner is credited, the
\* block is completed and its progress is back at 0.
ScenarioOutcome ==
    [][(last'.op = "mine" /\ ScenarioReady(last'.miner)) =>
          /\ miners'[last'.miner].total_proofs = 1
          /\ miners'[last'.miner].unclaimed_rewards > 0
          /\ last'.tape = GenesisTape
          /\ block'.progress = 0
          /\ block'.number = block.number + 1]_vars

\* C16: across any sequence of mine submissions and epoch advances the mining
\* difficulty is at least MIN_MINING_DIFFICULTY and the participation target
\* lies between MIN_PARTICIPATION_TARGET and MAX_PARTICIPATION_TARGET in
\* every reachable state.
C16_Bounds ==
    /\ epoch.mining_difficulty >= MIN_MINING_DIFFICULTY
    /\ epoch.target_participation >= MIN_PARTICIPATION_TARGET
    /\ epoch.target_participation <= MAX_PARTICIPATION_TARGET

\* An epoch that began with the target at its cap and closed without a
\* duplicate, slowly and at a multiple of the adjustment interval.
C16_Witness ==
    /\ last.op = "mine"
    /\ budget.mines >= 1
    /\ epoch.progress = 0
    /\ epoch.number = MAX_PARTICIPATION_TARGET * ADJUSTMENT_INTERVAL + 1
    /\ epoch.target_participation = MAX_PARTICIPATION_TARGET
    /\ epoch.mining_difficulty = MIN_MINING_DIFFICULTY
    /\ clock.unix_timestamp >= EPOCH_BLOCKS * BLOCK_DURATION_SECONDS

\* A step that advances the epoch.
Advances == epoch'.number # epoch.number
\* The duplicates of the closing epoch, the advancing submission included.
ClosingDuplicates ==
    IF last'.op = "duplicate" THEN epoch.duplicates + 1 ELSE epoch.duplicates

\* C17: at each epoch advance the participation target rises by 1 (capped at
\* MAX_PARTICIPATION_TARGET) only if the closing epoch saw no duplicate and
\* its number is a multiple of ADJUSTMENT_INTERVAL, falls by 1 (floored at
\* MIN_PARTICIPATION_TARGET) if it saw any duplicate, and is unchanged
\* otherwise; the mining difficulty rises by 1 if (current_time -
\* last_epoch_at) / EPOCH_BLOCKS is below BLOCK_DURATION_SECONDS and otherwise
\* falls by 1 (floored at MIN_MINING_DIFFICULTY).
C17_Adjusted ==
    Advances =>
        /\ epoch'.target_participation =
              IF ClosingDuplicates = 0 /\ epoch.number % ADJUSTMENT_INTERVAL = 0
              THEN Min(epoch.target_participation + 1, MAX_PARTICIPATION_TARGET)
              ELSE IF ClosingDuplicates > 0
                   THEN Max(epoch.target_participation - 1, MIN_PARTICIPATION_TARGET)
                   ELSE epoch.target_participation
        /\ epoch'.mining_difficulty =
              IF (clock.unix_timestamp - epoch.last_epoch_at) \div EPOCH_BLOCKS
                     < BLOCK_DURATION_SECONDS
              THEN epoch.mining_difficulty + 1
              ELSE Max(epoch.mining_difficulty - 1, MIN_MINING_DIFFICULTY)
C17_Adjustment == [][C17_Adjusted]_vars

\* An epoch whose number is the adjustment interval closed without a
\* duplicate after exactly EPOCH_BLOCKS * BLOCK_DURATION_SECONDS seconds: the
\* target rose, the difficulty fell to its floor.
C17_Witness ==
    /\ last.op = "mine"
    /\ budget.mines >= 1
    /\ epoch.progress = 0
    /\ epoch.number = ADJUSTMENT_INTERVAL + 1
    /\ epoch.target_participation = MIN_PARTICIPATION_TARGET + 1
    /\ epoch.mining_difficulty = MIN_MINING_DIFFICULTY
    /\ epoch.last_epoch_at = EPOCH_BLOCKS * BLOCK_DURATION_SECONDS

\* The last epoch of every emission year and the first of the next.
YearBoundaries ==
    {0, 1} \cup {y * EPOCHS_PER_YEAR - 1 : y \in 1..26}
           \cup {y * EPOCHS_PER_YEAR : y \in 1..26}

\* C18: an epoch lasts a fixed number of blocks: between two consecutive
\* increments of epoch.number the block number increases by exactly
\* EPOCH_BLOCKS, whatever the participation target, and while the epoch has
\* not had that many blocks a mine changes nothing in the epoch account except
\* epoch.progress (and epoch.duplicates for a stalled duplicate).
C18_Epoch ==
    /\ (Advances /\ epoch.number > 1) =>
           block'.number - budget.epoch_began = EPOCH_BLOCKS
    /\ block.number - budget.epoch_began < EPOCH_BLOCKS =>
           epoch' = [epoch EXCEPT !.progress = epoch'.progress,
                                  !.duplicates = epoch'.duplicates]
C18_EpochBlocks == [][C18_Epoch]_vars

\* What the program does instead: the epoch account counts accepted
\* submissions, and the submission that finds EPOCH_BLOCKS of them counted
\* advances the epoch without being counted itself.
EpochSubmissions ==
    /\ Advances <=> (epoch'.number = epoch.number + 1 /\ epoch.progress = EPOCH_BLOCKS)
    /\ ~Advances /\ budget'.mines # budget.mines =>
           epoch' = [epoch EXCEPT !.progress = epoch.progress + 1,
                                  !.duplicates = epoch'.duplicates]
    /\ budget'.mines = budget.mines => epoch' = epoch
    /\ (budget.mines - epoch.progress) % (EPOCH_BLOCKS + 1) = 0
EpochCountsSubmissions == [][EpochSubmissions]_vars

\* C19: when an epoch advances its number rises by exactly 1, its progress and
\* duplicates become 0 and its reward rate becomes get_base_rate(new number) +
\* archive.segments_stored * RENT_PER_SEGMENT, where get_base_rate never rises
\* with the epoch number; between advances the reward rate does not change.
C19_Advanced ==
    IF Advances
    THEN /\ epoch'.number = epoch.number + 1
         /\ epoch'.progress = 0
         /\ epoch'.duplicates = 0
         /\ epoch'.reward_rate =
               get_base_rate(epoch'.number) + archive.segments_stored * RENT_PER_SEGMENT
    ELSE epoch'.reward_rate = epoch.reward_rate
C19_BaseRateFalls ==
    \A n \in YearBoundaries, m \in YearBoundaries :
        n <= m => get_base_rate(n) >= get_base_rate(m)
C19_RewardRate == [](C19_BaseRateFalls) /\ [][C19_Advanced]_vars

\* The first emission year has just ended with two segments in the archive:
\* the base rate fell and the reward rate was recomputed from it.
C19_Witness ==
    /\ last.op = "mine"
    /\ budget.mines >= 1
    /\ epoch.progress = 0
    /\ epoch.number = EPOCHS_PER_YEAR
    /\ archive.segments_stored = MaxEpochSegments
    /\ epoch.reward_rate =
          get_base_rate(EPOCHS_PER_YEAR) + MaxEpochSegments * RENT_PER_SEGMENT
    /\ get_base_rate(EPOCHS_PER_YEAR) < get_base_rate(EPOCHS_PER_YEAR - 1)

\* The solutions of Solutions and each of them again with a PoW of no
\* difficulty, so that a solution can be too easy and invalid at once.
MineInputs(maddr, taddr) ==
    LET S == Solutions(maddr, taddr)
    IN S \cup {[sol EXCEPT !.pow.difficulty = 0] : sol \in S}

\* The preconditions of mine a submission violates.
TooEarly(maddr) ==
    /\ miners[maddr].last_proof_block = block.number
    /\ clock.unix_timestamp <= block.last_proof_at + BLOCK_DURATION_SECONDS
WrongTape(maddr, taddr) == tapes[taddr].number # RecallTapeOf(maddr)
TooEasy(sol) ==
    \/ sol.pow.difficulty < epoch.mining_difficulty
    \/ sol.poa.difficulty < epoch.packing_difficulty
SubmissionErr(maddr, taddr, sol) ==
    MineErr(miners[maddr].authority, maddr, taddr, sol.pow, sol.poa, 0)

\* C20: mine checks its preconditions in the order submission timing,
\* recalled tape, solution difficulty, solution validity and fails on the
\* first one violated: a duplicate of a block that has not stalled is rejected
\* even when the tape is also wrong, a wrong tape yields UnexpectedTape even
\* when the solution is too easy, and a solution below the mining or packing
\* difficulty yields SolutionTooEasy even when it is also invalid.
C20_Order ==
    \A maddr \in DOMAIN miners, taddr \in DOMAIN tapes :
        \A sol \in MineInputs(maddr, taddr) :
            SubmissionErr(maddr, taddr, sol) =
                IF TooEarly(maddr) THEN "InvalidInstructionData"
                ELSE IF WrongTape(maddr, taddr) THEN "UnexpectedTape"
                ELSE IF TooEasy(sol) THEN "SolutionTooEasy"
                ELSE IF ~SolutionProves(maddr, taddr, sol) THEN "SolutionInvalid"
                ELSE ""

\* One miner has just mined a block that is still open and is offered a tape
\* that is not the recalled one; another is offered a wrong tape with a
\* solution that is too easy, and the recalled tape with a solution that is
\* too easy and invalid.
C20_Witness ==
    /\ last.op = "mine"
    /\ \E maddr \in DOMAIN miners, taddr \in DOMAIN tapes :
          /\ TooEarly(maddr)
          /\ WrongTape(maddr, taddr)
          /\ \A sol \in MineInputs(maddr, taddr) :
                SubmissionErr(maddr, taddr, sol) = "InvalidInstructionData"
    /\ \E maddr \in DOMAIN miners, taddr \in DOMAIN tapes :
          \E sol \in MineInputs(maddr, taddr) :
              /\ ~TooEarly(maddr)
              /\ WrongTape(maddr, taddr)
              /\ TooEasy(sol)
              /\ SubmissionErr(maddr, taddr, sol) = "UnexpectedTape"
    /\ \E maddr \in DOMAIN miners, taddr \in DOMAIN tapes :
          \E sol \in MineInputs(maddr, taddr) :
              /\ ~TooEarly(maddr)
              /\ ~WrongTape(maddr, taddr)
              /\ TooEasy(sol)
              /\ ~SolutionProves(maddr, taddr, sol)
              /\ SubmissionErr(maddr, taddr, sol) = "SolutionTooEasy"

\* The errors a mine submission is rejected with.
MineFailures ==
    {"InvalidInstructionData", "UnexpectedTape", "SolutionTooEasy", "SolutionInvalid"}

\* C21: every failed mine submission (duplicate in the block, UnexpectedTape,
\* SolutionTooEasy or SolutionInvalid) leaves the epoch, block, miner, tape
\* and archive accounts exactly as they were; in particular a duplicate of a
\* stalled block that passes the timing check and then fails a later check
\* does not leave epoch.duplicates incremented.
C21_NothingWritten ==
    last'.op \in MineFailures => UNCHANGED <<epoch, block, miners, tapes, archive>>
CreditedReward ==
    calculate_reward(epoch, tapes[GenesisTape],
                     update_multiplier(miners[ChainMiner], block).multiplier)

\* C22: no counter update in an accepted transition overflows, wraps or
\* aborts: the miner's unclaimed_rewards, total_rewards and total_proofs are
\* updated with saturating or checked arithmetic, so at the top of the word a
\* mine either saturates them or returns a typed error.
C22_Saturates ==
    /\ last'.op # "panic"
    /\ last'.op = "mine" =>
          /\ miners'[ChainMiner].unclaimed_rewards =
                saturating_add(miners[ChainMiner].unclaimed_rewards, CreditedReward)
          /\ miners'[ChainMiner].total_rewards =
                saturating_add(miners[ChainMiner].total_rewards, CreditedReward)
          /\ miners'[ChainMiner].total_proofs =
                saturating_add(miners[ChainMiner].total_proofs, 1)
C22_Counters == [][C22_Saturates]_vars

\* What the program does: the counters are exact while the sums fit the
\* word.
CountersExact ==
    (last'.op = "mine"
        /\ ~update_miner_state_overflows(
               update_multiplier(miners[ChainMiner], block), CreditedReward)) =>
        /\ miners'[ChainMiner].unclaimed_rewards =
              miners[ChainMiner].unclaimed_rewards + CreditedReward
        /\ miners'[ChainMiner].total_rewards =
              miners[ChainMiner].total_rewards + CreditedReward
        /\ miners'[ChainMiner].total_proofs = miners[ChainMiner].total_proofs + 1
CountersExactWhileTheyFit == [][CountersExact]_vars

\* A claim of the miner's rewards for the amount was processed.
Claims(maddr, args_amount) ==
    \E transferred \in BOOLEAN :
        Claim(miners[maddr].authority, maddr, args_amount, transferred)

\* C23: a claim for more than miner.unclaimed_rewards fails with
\* ClaimTooLarge and changes nothing; a claim for the amount 0 claims the
\* whole unclaimed balance; a successful claim lowers unclaimed_rewards by
\* exactly the claimed amount and leaves total_rewards and total_proofs
\* unchanged, so unclaimed_rewards never underflows.
C23_Claimed ==
    \A maddr \in DOMAIN miners :
      \A args_amount \in ClaimAmounts(maddr) :
        Claims(maddr, args_amount) =>
            LET unclaimed == miners[maddr].unclaimed_rewards
                claimed == IF args_amount = 0 THEN unclaimed ELSE args_amount
            IN IF args_amount > unclaimed
               THEN last'.op = "ClaimTooLarge" /\ miners' = miners
               ELSE IF last'.op = "claim"
               THEN /\ miners'[maddr].unclaimed_rewards = unclaimed - claimed
                    /\ miners'[maddr].unclaimed_rewards >= 0
                    /\ miners' = [miners EXCEPT ![maddr] =
                           [@ EXCEPT !.unclaimed_rewards = unclaimed - claimed]]
               ELSE miners' = miners
C23_Claim == [][C23_Claimed]_vars

\* A miner that has mined has claimed its whole balance.
C23_Witness ==
    /\ last.op = "claim"
    /\ budget.claims >= 1
    /\ miners[last.miner].unclaimed_rewards = 0
    /\ miners[last.miner].total_rewards > 0

\* ------------------------------------------- specification: MerkleTree<N>
\* The tree of `tree` is driven through try_add_leaf and
\* try_replace_leaf_no_std from the state new(seed) returns; `leaves` follows
\* the leaves it holds.  A failed call returns its error and is recorded in
\* `last`.
TreeLeaves == {Leaf(0, v) : v \in 0..MaxLeafValue}
\* A hash that is no leaf and no node of the tree.
ForeignHash == Leaf(1, 0)
ProofKinds == {"proof", "short", "long", "foreign"}

\* The proofs handed to try_replace_leaf_no_std and contains_leaf for position
\* leaf_index: the one get_proof returns, that proof without its last element
\* or with one more, and that proof with a foreign first sibling.  The proof
\* of a position of the empty tree is the zero values.
TreeProof(leaf_index, kind) ==
    LET N == Len(tree.zero_values)
        proof == IF leaf_index < Len(leaves)
                 THEN get_merkle_proof(leaves, tree.zero_values, leaf_index, N)
                 ELSE tree.zero_values
    IN CASE kind = "proof" -> proof
         [] kind = "short" -> SubSeq(proof, 1, N - 1)
         [] kind = "long" -> Append(proof, tree.zero_values[N])
         [] kind = "foreign" -> [proof EXCEPT ![1] = ForeignHash]

TreePositions == 0..Max(Len(leaves) - 1, 0)

TreeDone(op, err) == [op |-> op, err |-> err]

TreeAdd(leaf) ==
    LET r == AddLeaves(tree, <<leaf>>)
    IN /\ tree' = r.tree
       /\ leaves' = IF r.err = "" THEN Append(leaves, leaf) ELSE leaves
       /\ last' = TreeDone("try_add_leaf", r.err)
       /\ UNCHANGED <<archive, epoch, block, tapes, writers, miners, clock,
                      segments, finalizations, budget, spools, packed>>

TreeReplace(leaf_index, kind, original_leaf, new_leaf) ==
    LET r == try_replace_leaf_no_std(tree, TreeProof(leaf_index, kind),
                                     original_leaf, new_leaf)
    IN /\ tree' = r.tree
       /\ leaves' = IF r.err = ""
                    THEN [leaves EXCEPT ![leaf_index + 1] = new_leaf] ELSE leaves
       /\ last' = TreeDone("try_replace_leaf", r.err)
       /\ UNCHANGED <<archive, epoch, block, tapes, writers, miners, clock,
                      segments, finalizations, budget, spools, packed>>

NextTreeAdd == \E leaf \in TreeLeaves : TreeAdd(leaf)
NextTreeReplace ==
    \E leaf_index \in TreePositions, kind \in ProofKinds,
       original_leaf \in TreeLeaves, new_leaf \in TreeLeaves :
        TreeReplace(leaf_index, kind, original_leaf, new_leaf)

InitTree == InitGenesis /\ block = InitBlock(0)
NextTree == NextTreeAdd \/ NextTreeReplace
SpecTree == InitTree /\ [][NextTree]_vars

RECURSIVE ZeroSubtree(_, _)
\* The root of a subtree of the given height all of whose positions are empty.
ZeroSubtree(empty_leaf, height) ==
    IF height = 0 THEN empty_leaf
    ELSE hash_left_right(ZeroSubtree(empty_leaf, height - 1),
                         ZeroSubtree(empty_leaf, height - 1))

RECURSIVE SubtreeRoot(_, _, _, _)
\* The root of the subtree of the given height at the given position of its
\* level, over the leaves `held` followed by empty positions.
SubtreeRoot(held, empty_leaf, height, position) ==
    IF position * Pow2(height) >= Len(held) THEN ZeroSubtree(empty_leaf, height)
    ELSE IF height = 0 THEN held[position + 1]
    ELSE hash_left_right(SubtreeRoot(held, empty_leaf, height - 1, 2 * position),
                         SubtreeRoot(held, empty_leaf, height - 1, 2 * position + 1))

\* The Merkle root of the height-N tree whose first positions hold `held` and
\* whose remaining positions are zero subtrees.
MerkleRoot(held, empty_leaf, N) == SubtreeRoot(held, empty_leaf, N, 0)

RootOf(t, held) ==
    t.root = MerkleRoot(held, t.zero_values[1], Len(t.zero_values))

\* C24: in every state reached from new(seed) by successful try_add_leaf and
\* try_replace_leaf calls -- the empty tree and trees holding equal leaves at
\* different positions included -- next_index <= 2^N and root is the Merkle
\* root of the height-N tree whose first next_index positions hold the
\* current leaves and whose remaining positions are zero subtrees.
C24_RootOfLeaves ==
    /\ tree.next_index <= Pow2(MerkleHeight)
    /\ tree.next_index = Len(leaves)
    /\ RootOf(tree, leaves)

\* What holds instead: next_index is bounded and counts the leaves, and the
\* root is the Merkle root whenever the tree holds at least one leaf and no
\* leaf twice.
Distinct(held) ==
    \A i, j \in 1..Len(held) : held[i] = held[j] => i = j
RootOfDistinctLeaves ==
    /\ tree.next_index <= Pow2(MerkleHeight)
    /\ tree.next_index = Len(leaves)
    /\ (leaves # <<>> /\ Distinct(leaves)) => RootOf(tree, leaves)
\* The root of a tree that holds a leaf is the Merkle root of its leaves.
RootOfHeldLeaves == leaves # <<>> => RootOf(tree, leaves)

\* The tree that try_add_leaf builds from new(seed) over a list of leaves.
Built(held) == AddLeaves(new(MerkleHeight, 0), held).tree

\* The leaves that can be asked about: the ones that are added and a foreign one.
AskedLeaves == TreeLeaves \cup {ForeignHash}
Added(held, leaf) == \E j \in 1..Len(held) : held[j] = leaf

\* C25: for every list of k leaves (1 <= k <= 2^N) added in order with
\* try_add_leaf and every index i < k, the proof get_proof_no_std produces for
\* index i over that list makes contains_leaf(proof, leaf_i) true, and
\* contains_leaf is false for a leaf that was never added.
C25_ProofsVerify ==
    \A i \in 0..(Len(leaves) - 1) :
        LET r == get_merkle_proof_no_std(leaves, Built(leaves).zero_values, i)
        IN /\ ~r.panic
           /\ ~r.undefined
           /\ contains_leaf(Built(leaves), r.proof, leaves[i + 1])
           /\ \A leaf \in AskedLeaves :
                  ~Added(leaves, leaf) => ~contains_leaf(Built(leaves), r.proof, leaf)

\* The same statement holds of the proofs of get_proof (get_merkle_proof) ...
StdProofsVerify ==
    \A i \in 0..(Len(leaves) - 1) :
        LET proof == get_merkle_proof(leaves, Built(leaves).zero_values, i,
                                      MerkleHeight)
        IN /\ contains_leaf(Built(leaves), proof, leaves[i + 1])
           /\ \A leaf \in AskedLeaves :
                  ~Added(leaves, leaf) => ~contains_leaf(Built(leaves), proof, leaf)
\* ... and of the proofs of get_proof_no_std over at most MAX_LAYER_SIZE leaves.
NoStdProofsVerifyWhileTheyFit ==
    Len(leaves) <= MAX_LAYER_SIZE => C25_ProofsVerify
\* Past MAX_LAYER_SIZE leaves get_proof_no_std returns for some position a
\* proof that does not verify, and for another it indexes past its buffer.
NoStdProofRejected ==
    \E i \in 0..(Len(leaves) - 1) :
        LET r == get_merkle_proof_no_std(leaves, Built(leaves).zero_values, i)
        IN ~r.panic /\ ~contains_leaf(Built(leaves), r.proof, leaves[i + 1])
NoStdProofPanics ==
    \E i \in 0..(Len(leaves) - 1) :
        get_merkle_proof_no_std(leaves, Built(leaves).zero_values, i).panic

\* The proofs and leaves a caller can hand to the tree in the current state.
HandedProofs == {TreeProof(i, kind) : i \in TreePositions, kind \in ProofKinds}
HandedLeaves == AskedLeaves \cup {tree.zero_values[1]}
\* proof resolves leaf to the current root.
Resolves(proof, leaf) == FoldPath(leaf, proof) = tree.root

\* C26: for any tree state, any leaf X with a valid proof p and any leaf Y,
\* try_replace_leaf(p, X, Y) followed by try_replace_leaf(p, Y, X) both
\* succeed and restore the original root.
C26_RoundTrip ==
    \A p \in HandedProofs : \A X \in HandedLeaves : \A Y \in HandedLeaves :
        (check_length(tree, p) /\ Resolves(p, X)) =>
            LET there == try_replace_leaf_no_std(tree, p, X, Y)
                back == try_replace_leaf_no_std(there.tree, p, Y, X)
            IN /\ there.err = ""
               /\ back.err = ""
               /\ back.tree.root = tree.root

\* A tree in which a replacement has just succeeded holds a leaf X with a
\* valid proof, and replacing it by another leaf changes the root.
C26_Witness ==
    /\ last = TreeDone("try_replace_leaf", "")
    /\ \E p \in HandedProofs : \E X \in TreeLeaves : \E Y \in TreeLeaves :
           /\ X # Y
           /\ check_length(tree, p) /\ Resolves(p, X)
           /\ try_replace_leaf_no_std(tree, p, X, Y).tree.root # tree.root

\* C27: try_add_leaf fails with TreeFull exactly when next_index = 2^N;
\* try_replace_leaf fails with ProofLength when the proof length is not N and
\* with InvalidProof when the proof does not resolve old_leaf to the current
\* root; every failed call leaves root, filled_subtrees and next_index
\* unchanged; contains_leaf accepts no proof whose length differs from N.
C27_Failures ==
    /\ \A leaf \in TreeLeaves :
           LET r == AddLeaves(tree, <<leaf>>)
           IN /\ (r.err = "TreeFull") <=> (tree.next_index = Pow2(MerkleHeight))
              /\ r.err \in {"", "TreeFull"}
              /\ r.err # "" => r.tree = tree
    /\ \A proof \in HandedProofs :
       \A original_leaf \in HandedLeaves : \A new_leaf \in TreeLeaves :
           LET r == try_replace_leaf_no_std(tree, proof, original_leaf, new_leaf)
           IN /\ (r.err = "ProofLength") <=> (Len(proof) # MerkleHeight)
              /\ (r.err = "InvalidProof") <=>
                     (Len(proof) = MerkleHeight /\ ~Resolves(proof, original_leaf))
              /\ r.err \in {"", "ProofLength", "InvalidProof"}
              /\ r.err # "" => r.tree = tree
    /\ \A proof \in HandedProofs : \A leaf \in HandedLeaves :
           Len(proof) # MerkleHeight => ~contains_leaf(tree, proof, leaf)

\* A full tree has just refused a leaf.
C27_Witness ==
    /\ last = TreeDone("try_add_leaf", "TreeFull")
    /\ tree.next_index = Pow2(MerkleHeight)
    /\ Len(leaves) = Pow2(MerkleHeight)
\* A replacement was refused for the length of its proof, and one for a proof
\* that does not resolve.
ProofLengthRefused == last = TreeDone("try_replace_leaf", "ProofLength")
InvalidProofRefused == last = TreeDone("try_replace_leaf", "InvalidProof")
\* A proof of the wrong length that resolves a leaf to the root exists.
ShortProofResolves ==
    \E p \in HandedProofs : \E leaf \in HandedLeaves :
        Len(p) # MerkleHeight /\ Resolves(p, leaf)

\* ------------------------------------------------------------------- spools
\* tape_api::consts: the height of a spool's tape tree and the cap on its tapes.
TAPE_TREE_HEIGHT == TapeTreeHeight
TAPE_PROOF_LEN == TAPE_TREE_HEIGHT
MAX_TAPES_PER_SPOOL == MaxSpoolTapes

\* spool_pda(miner, number): the address is the pair.
spool_pda(miner_address, number) == <<miner_address, number>>
SpoolMiners == {miner_pda("payer", "m"), miner_pda("payer", "n")}
SpoolNumbers == 0..MaxSpoolNumber
\* The spools that are created are those of the first miner.
SpoolAddrs == {spool_pda(miner_pda("payer", "m"), n) : n \in SpoolNumbers}
\* The seed bytes of a spool address.
KeySeed(saddr) == 2 * saddr[2] + (IF saddr[1][2] = "m" THEN 0 ELSE 1)

\* Leaf::new(&[tape.number.to_le_bytes(), value]) = H("LEAF" || number || value)
PackLeaf(number, value) == <<5, number>> \o value

SpoolCreateErr(signer, maddr, saddr, number) ==
    IF saddr \in DOMAIN spools THEN "AccountAlreadyInitialized"
    ELSE IF maddr \notin DOMAIN miners THEN "IncorrectProgramId"
    ELSE IF miners[maddr].authority # signer THEN "MissingRequiredSignature"
    ELSE IF spool_pda(maddr, number) # saddr THEN "InvalidAccountOwner"
    ELSE ""

\* process_spool_create, the writes.
DoSpoolCreate(signer, saddr, number, current_time) ==
    [number |-> number, authority |-> signer, last_proof_at |-> current_time,
     last_proof_block |-> 0, state |-> new(TAPE_TREE_HEIGHT, KeySeed(saddr)),
     contains |-> ZeroHash, total_tapes |-> 0]

\* process_spool_pack, from the authority check on.
DoPack(spool, tape, signer, value) ==
    LET added == AddLeaves(spool.state, <<PackLeaf(tape.number, value)>>)
        failed(e) == [err |-> e, spool |-> spool]
    IN IF spool.authority # signer THEN failed("MissingRequiredSignature")
       ELSE IF tape.state # Finalized THEN failed("UnexpectedState")
       ELSE IF tape.number = 0 THEN failed("UnexpectedState")
       ELSE IF ~(spool.total_tapes <= MAX_TAPES_PER_SPOOL)
       THEN failed("SpoolTooManyTapes")
       ELSE IF added.err # "" THEN failed("SpoolPackFailed")
       ELSE [err |-> "",
             spool |-> [spool EXCEPT !.state = added.tree,
                                     !.total_tapes = spool.total_tapes + 1]]

\* process_spool_unpack, from the authority check on.
DoUnpack(spool, signer, index, proof, value) ==
    LET failed(e) == [err |-> e, spool |-> spool]
    IN IF spool.authority # signer THEN failed("MissingRequiredSignature")
       ELSE IF Len(proof) # TAPE_PROOF_LEN THEN failed("InvalidInstructionData")
       ELSE IF ~contains_leaf(spool.state, proof, PackLeaf(index, value))
       THEN failed("SpoolUnpackFailed")
       ELSE [err |-> "", spool |-> [spool EXCEPT !.contains = value]]

\* A variant of process_spool_commit that verifies against the root of the
\* spool's tape tree.
DoCommit_tree_root(miner, spool, signer, proof, value) ==
    LET failed(e) == [err |-> e, miner |-> miner]
    IN IF miner.authority # signer THEN failed("MissingRequiredSignature")
       ELSE IF spool.authority # signer THEN failed("MissingRequiredSignature")
       ELSE IF Len(proof) # SEGMENT_PROOF_LEN THEN failed("InvalidInstructionData")
       ELSE IF ~verify(spool.state.root, proof, value)
       THEN failed("SpoolCommitFailed")
       ELSE [err |-> "", miner |-> [miner EXCEPT !.commitment = value]]

\* process_spool_commit, from the authority checks on.
DoCommit(miner, spool, signer, proof, value) ==
    LET failed(e) == [err |-> e, miner |-> miner]
    IN IF miner.authority # signer THEN failed("MissingRequiredSignature")
       ELSE IF spool.authority # signer THEN failed("MissingRequiredSignature")
       ELSE IF Len(proof) # SEGMENT_PROOF_LEN THEN failed("InvalidInstructionData")
       ELSE IF ~verify(spool.contains, proof, value)
       THEN failed("SpoolCommitFailed")
       ELSE [err |-> "", miner |-> [miner EXCEPT !.commitment = value]]

\* ----------------------------------------------- specification: the spools
\* Two miners of one authority, a finalized tape and a tape that was only
\* created; spools are created, packed, unpacked and committed.  A failed
\* instruction changes no account; its error is recorded in `last`.
SpoolTape == tape_pda("payer", "a")
SpoolDone(op, err, saddr, maddr, taddr, value) ==
    [op |-> op, err |-> err, spool |-> saddr, miner |-> maddr, tape |-> taddr,
     value |-> value]

InitSpool ==
    /\ block = InitBlock(0)
    /\ epoch = InitEpoch
    /\ archive = GenesisFinalized.archive
    /\ tapes = (GenesisTape :> GenesisFinalized.tape)
               @@ (SpoolTape :> DoCreate("payer", "a", 0))
    /\ writers = (SpoolTape :> NewWriter(SpoolTape))
    /\ miners = [m \in SpoolMiners |-> NewMiner("payer", m[2], 1)]
    /\ clock = [unix_timestamp |-> 0, slot |-> 0]
    /\ last = Done("initialize", NoAccount, NoAccount)
    /\ segments = [NoSegments EXCEPT ![GenesisTape] = GenesisData]
    /\ finalizations = <<[tape |-> GenesisTape, block |-> 1]>>
    /\ budget = NoBudget
    /\ NoSpools

\* The values packed and unpacked: the root of the finalized tape and another.
PackValues == {GenesisFinalized.tape.merkle_root, ForeignHash}

\* The proof a holder of the spool's leaves computes for one of them, and that
\* proof without its last element.
SpoolProof(saddr, position, kind) ==
    LET zeros == spools[saddr].state.zero_values
        proof == IF position < Len(packed[saddr])
                 THEN get_merkle_proof(packed[saddr], zeros, position,
                                       TAPE_TREE_HEIGHT)
                 ELSE zeros
    IN IF kind = "proof" THEN proof ELSE SubSeq(proof, 1, TAPE_PROOF_LEN - 1)

\* What a commit proves: a segment of the finalized tape with its proof in the
\* tape's segment tree, a foreign value with that proof, or a leaf of the
\* spool with its proof in the spool's tape tree.
CommitInputs(saddr) ==
    {[value |-> compute_leaf(n, GenesisData[n + 1]),
      proof |-> HonestProof(GenesisTape, n)] : n \in 0..(Len(GenesisData) - 1)}
    \cup {[value |-> ForeignHash, proof |-> HonestProof(GenesisTape, 0)]}
    \cup {[value |-> packed[saddr][i], proof |-> SpoolProof(saddr, i - 1, "proof")] :
             i \in 1..Len(packed[saddr])}

SpoolCreate(signer, maddr, saddr, number) ==
    LET err == SpoolCreateErr(signer, maddr, saddr, number)
    IN /\ spools' = IF err # "" THEN spools
                    ELSE (saddr :> DoSpoolCreate(signer, saddr, number,
                                                 clock.unix_timestamp)) @@ spools
       /\ packed' = IF err # "" THEN packed ELSE (saddr :> <<>>) @@ packed
       /\ last' = SpoolDone("create", err, saddr, maddr, NoAccount, ZeroHash)
       /\ UNCHANGED <<archive, epoch, block, tapes, writers, miners, clock,
                      segments, finalizations, budget, tree, leaves>>

SpoolPack(signer, saddr, taddr, value) ==
    LET r == DoPack(spools[saddr], tapes[taddr], signer, value)
    IN /\ spools' = [spools EXCEPT ![saddr] = r.spool]
       /\ packed' = IF r.err # "" THEN packed
                    ELSE [packed EXCEPT ![saddr] =
                             Append(@, PackLeaf(tapes[taddr].number, value))]
       /\ last' = SpoolDone("pack", r.err, saddr, NoAccount, taddr, value)
       /\ UNCHANGED <<archive, epoch, block, tapes, writers, miners, clock,
                      segments, finalizations, budget, tree, leaves>>

SpoolUnpack(signer, saddr, position, kind, index, value) ==
    LET r == DoUnpack(spools[saddr], signer, index,
                      SpoolProof(saddr, position, kind), value)
    IN /\ spools' = [spools EXCEPT ![saddr] = r.spool]
       /\ last' = SpoolDone("unpack", r.err, saddr, NoAccount, NoAccount, value)
       /\ UNCHANGED <<archive, epoch, block, tapes, writers, miners, clock,
                      segments, finalizations, budget, packed, tree, leaves>>

SpoolCommit(signer, maddr, saddr, proof, value) ==
    LET r == DoCommit(miners[maddr], spools[saddr], signer, proof, value)
    IN /\ miners' = [miners EXCEPT ![maddr] = r.miner]
       /\ last' = SpoolDone("commit", r.err, saddr, maddr, NoAccount, value)
       /\ UNCHANGED <<archive, epoch, block, tapes, writers, clock,
                      segments, finalizations, budget, spools, packed, tree, leaves>>

NextSpoolCreate ==
    \E signer \in Signers, maddr \in DOMAIN miners, saddr \in SpoolAddrs,
       number \in SpoolNumbers :
        SpoolCreate(signer, maddr, saddr, number)
NextSpoolPack ==
    \E signer \in Signers, saddr \in DOMAIN spools, taddr \in DOMAIN tapes,
       value \in PackValues :
        SpoolPack(signer, saddr, taddr, value)
NextSpoolUnpack ==
    \E signer \in Signers, saddr \in DOMAIN spools :
    \E position \in 0..Max(Len(packed[saddr]) - 1, 0), kind \in {"proof", "short"},
       index \in {tapes[t].number : t \in DOMAIN tapes}, value \in PackValues :
        SpoolUnpack(signer, saddr, position, kind, index, value)
NextSpoolCommit ==
    \E signer \in Signers, maddr \in DOMAIN miners, saddr \in DOMAIN spools :
    \E input \in CommitInputs(saddr) :
        SpoolCommit(signer, maddr, saddr, input.proof, input.value)

NextSpool == NextSpoolCreate \/ NextSpoolPack \/ NextSpoolUnpack \/ NextSpoolCommit
SpecSpool == InitSpool /\ [][NextSpool]_vars

\* The last instruction was a pack that succeeded / that did anything at all.
Packed == last'.op = "pack" /\ last'.err = ""
PackedLeaf == PackLeaf(tapes[last'.tape].number, last'.value)

\* A successful pack names a finalized tape.
PackOnlyFinalized ==
    [][Packed => tapes[last'.tape].state = Finalized]_vars
\* A successful pack adds the leaf (tape.number || value) at the next position
\* of the spool's tree and 1 to total_tapes, and changes nothing else.
PackAddsOneLeaf ==
    [][Packed =>
         LET before == spools[last'.spool]
             after == spools'[last'.spool]
         IN /\ after.state = try_add_leaf(before.state, PackedLeaf)
            /\ after.state.next_index = before.state.next_index + 1
            /\ after.total_tapes = before.total_tapes + 1
            /\ after = [before EXCEPT !.state = after.state,
                                      !.total_tapes = after.total_tapes]
            /\ \A other \in DOMAIN spools \ {last'.spool} :
                   spools'[other] = spools[other]]_vars
\* A pack on a spool that holds MAX_TAPES_PER_SPOOL tapes is refused with
\* SpoolTooManyTapes and leaves the spool unchanged.
PackRefusedAtCap ==
    [][(last'.op = "pack"
        /\ last'.err \notin {"MissingRequiredSignature", "UnexpectedState"}
        /\ spools[last'.spool].total_tapes = MAX_TAPES_PER_SPOOL)
       => (last'.err = "SpoolTooManyTapes" /\ spools' = spools)]_vars
TotalTapesCapped ==
    \A saddr \in DOMAIN spools : spools[saddr].total_tapes <= MAX_TAPES_PER_SPOOL

\* C28: pack succeeds only for a Finalized tape; in every reachable state
\* spool.total_tapes <= MAX_TAPES_PER_SPOOL; a pack on a spool that already
\* holds MAX_TAPES_PER_SPOOL tapes fails with SpoolTooManyTapes and leaves the
\* spool unchanged; each successful pack adds exactly one leaf
\* (tape.number || value) to the spool tree and 1 to total_tapes.
C28_Pack ==
    /\ PackOnlyFinalized
    /\ []TotalTapesCapped
    /\ PackRefusedAtCap
    /\ PackAddsOneLeaf

\* What the code keeps: a spool never holds more than MAX_TAPES_PER_SPOOL + 1
\* tapes, and total_tapes counts the leaves of its tree.
TotalTapesCappedByOneMore ==
    \A saddr \in DOMAIN spools :
        /\ spools[saddr].total_tapes <= MAX_TAPES_PER_SPOOL + 1
        /\ spools[saddr].total_tapes = spools[saddr].state.next_index
        /\ spools[saddr].total_tapes = Len(packed[saddr])
\* A spool holds one tape more than the cap.
OverCap ==
    \E saddr \in DOMAIN spools : spools[saddr].total_tapes = MAX_TAPES_PER_SPOOL + 1

\* Every commit that can be submitted in the current state, with its result.
Commits ==
    {[signer |-> signer, miner |-> maddr, spool |-> saddr, proof |-> input.proof,
      value |-> input.value,
      result |-> DoCommit(miners[maddr], spools[saddr], signer, input.proof,
                          input.value)] :
        signer \in Signers, maddr \in DOMAIN miners,
        saddr \in DOMAIN spools,
        input \in UNION {CommitInputs(a) : a \in DOMAIN spools}}
Authorized(c) ==
    /\ miners[c.miner].authority = c.signer
    /\ spools[c.spool].authority = c.signer
Committing == last'.op = "commit"

CommitChecksContains ==
    \A c \in Commits :
        LET resolves == /\ Len(c.proof) = SEGMENT_PROOF_LEN
                        /\ FoldPath(c.value, c.proof) = spools[c.spool].contains
        IN /\ (c.result.err = "") <=> (Authorized(c) /\ resolves)
           /\ c.result.err = "" =>
                  c.result.miner = [miners[c.miner] EXCEPT !.commitment = c.value]
           /\ c.result.err # "" => c.result.miner = miners[c.miner]
           /\ (Authorized(c) /\ Len(c.proof) = SEGMENT_PROOF_LEN /\ ~resolves)
                  => c.result.err = "SpoolCommitFailed"
CommitWrites ==
    Committing =>
        /\ spools' = spools
        /\ IF last'.err = ""
           THEN miners' = [miners EXCEPT ![last'.miner].commitment = last'.value]
           ELSE miners' = miners
C30_Step ==
    Committing =>
        /\ \A maddr \in DOMAIN miners :
               miners'[maddr] # miners[maddr] => last'.spool = spool_pda(maddr, last'.spool[2])
        /\ last'.spool[1] # last'.miner => (last'.err # "" /\ miners' = miners)
C30_OwningMiner == [][C30_Step]_vars

\* What holds: commit changes no miner but the one it names, and only when the
\* signer is the authority of both that miner and the spool.
CommitNamedMiner ==
    [][Committing =>
         /\ \A maddr \in DOMAIN miners :
                miners'[maddr] # miners[maddr] => maddr = last'.miner
         /\ miners' # miners =>
                /\ miners[last'.miner].authority = spools[last'.spool].authority
                /\ last'.err = ""]_vars
\* The second miner of the authority holds a commitment, proved from the first
\* miner's spool: no spool of its own exists.
ForeignCommitment ==
    /\ miners[miner_pda("payer", "n")].commitment # ZeroHash
    /\ \A saddr \in DOMAIN spools : saddr[1] # miner_pda("payer", "n")

\* The leaves a tape's segments stand for: the k-th is keyed by its index k.
KeyedLeaves(addr) ==
    [k \in 1..Len(segments[addr]) |-> Leaf(k - 1, segments[addr][k])]
\* The tapes that are still written to.
OpenTapes == DOMAIN tapes \cap DOMAIN writers

\* C31: after every successful write or update on a tape, tape.merkle_root is
\* the root of the tape's Writer tree, the Writer tree's leaf count is
\* tape.total_segments, and the k-th leaf is the one keyed by segment index k
\* (a write appends its segments at the previous total_segments onwards).
C31_WriterTree ==
    \A addr \in OpenTapes :
        /\ tapes[addr].merkle_root = writers[addr].state.root
        /\ writers[addr].state.next_index = tapes[addr].total_segments
        /\ Len(segments[addr]) = tapes[addr].total_segments
        /\ writers[addr].state.root =
               AddLeaves(ZeroedTree(SEGMENT_TREE_HEIGHT), KeyedLeaves(addr)).tree.root
        /\ \A k \in 0..(Len(segments[addr]) - 1) :
               verify(tapes[addr].merkle_root, HonestProof(addr, k),
                      KeyedLeaves(addr)[k + 1])

\* A full tape has just had a segment replaced.
C31_Witness ==
    /\ last.op = "update"
    /\ last.tape \in OpenTapes
    /\ tapes[last.tape].total_segments = MAX_SEGMENTS_PER_TAPE
    /\ tapes[last.tape].merkle_root # ZeroHash

\* The updates a signer can ask of a tape: a segment number, the data held to
\* be there, the data to put there, and a proof.
UpdateInputs(addr) ==
    {<<n, old_data, new_data, proof>> :
        n \in SegmentNumbers, old_data \in SegmentValues,
        new_data \in SegmentValues, proof \in Proofs(addr)}
Updated(addr, u) ==
    DoUpdate(tapes[addr], writers[addr], u[1], u[2], u[3], u[4], clock.slot)
\* Every update that succeeds finds the tape in state Writing and carries a
\* proof of the right length that resolves the old segment leaf to the root of
\* the Writer tree; what it writes is the new root and the tail slot.
UpdateGuards ==
    \A addr \in OpenTapes : \A u \in UpdateInputs(addr) :
        Updated(addr, u).err = "" =>
            /\ tapes[addr].state = Writing
            /\ Len(u[4]) = SEGMENT_PROOF_LEN
            /\ FoldPath(Leaf(u[1], u[2]), u[4]) = writers[addr].state.root
            /\ Updated(addr, u).tape =
                   [tapes[addr] EXCEPT
                       !.merkle_root = Updated(addr, u).writer.state.root,
                       !.tail_slot = clock.slot]
            /\ verify(Updated(addr, u).tape.merkle_root, u[4], Leaf(u[1], u[3]))
\* A step that updates a tape leaves every field of the tape but merkle_root
\* and tail_slot as it was, and every other tape and the archive too.
UpdateFrame ==
    last'.op = "update" =>
        /\ tapes[last'.tape].state = Writing
        /\ tapes'[last'.tape] =
               [tapes[last'.tape] EXCEPT
                   !.merkle_root = writers'[last'.tape].state.root,
                   !.tail_slot = clock.slot]
        /\ tapes'[last'.tape].total_segments = tapes[last'.tape].total_segments
        /\ tapes'[last'.tape].state = tapes[last'.tape].state
        /\ tapes'[last'.tape].number = tapes[last'.tape].number
        /\ tapes'[last'.tape].balance = tapes[last'.tape].balance
        /\ \A addr \in DOMAIN tapes \ {last'.tape} : tapes'[addr] = tapes[addr]
        /\ archive' = archive

\* C32: an update succeeds only while the tape is in state Writing and only
\* with a proof that resolves the old segment leaf to the current Writer root;
\* it changes merkle_root and the tail slot and leaves total_segments, state,
\* number and balance unchanged.
C32_Update == []UpdateGuards /\ [][UpdateFrame]_vars

\* An update has replaced a segment of a funded tape by different data after
\* the slot moved on: the root and the tail slot both changed.
C32_Witness ==
    /\ last.op = "update"
    /\ tapes[last.tape].state = Writing
    /\ tapes[last.tape].balance > 0
    /\ tapes[last.tape].tail_slot > tapes[last.tape].first_slot
    /\ tapes[last.tape].tail_slot = clock.slot
    /\ tapes[last.tape].merkle_root = writers[last.tape].state.root

RECURSIVE TotalSegments(_)
\* The sum of total_segments over a set of tapes.
TotalSegments(addrs) ==
    IF addrs = {} THEN 0
    ELSE LET addr == CHOOSE a \in addrs : TRUE
         IN tapes[addr].total_segments + TotalSegments(addrs \ {addr})
\* The archive counts the finalized tapes and their segments.
ArchiveCounts ==
    /\ archive.tapes_stored = Cardinality(FinalizedTapes)
    /\ archive.segments_stored = TotalSegments(FinalizedTapes)
\* Only a finalization changes the archive counters, and it raises
\* tapes_stored by one and segments_stored by the tape's total_segments.
ArchiveStep ==
    /\ archive'.tapes_stored >= archive.tapes_stored
    /\ archive'.segments_stored >= archive.segments_stored
    /\ archive' # archive =>
           /\ last'.op = "finalize"
           /\ tapes[last'.tape].state = Writing
           /\ tapes'[last'.tape].state = Finalized
           /\ archive'.tapes_stored = archive.tapes_stored + 1
           /\ archive'.segments_stored =
                  archive.segments_stored + tapes[last'.tape].total_segments
    /\ last'.op = "finalize" => archive'.tapes_stored = archive.tapes_stored + 1

\* C33: archive.tapes_stored and archive.segments_stored are changed only by a
\* successful finalize and never decrease; tapes_stored is the number of tapes
\* in state Finalized and segments_stored the sum of total_segments over them.
C33_Archive == []ArchiveCounts /\ [][ArchiveStep]_vars

\* A tape of two segments has just been finalized next to the genesis tape.
C33_Witness ==
    /\ last.op = "finalize"
    /\ tapes[last.tape].total_segments = 2
    /\ Cardinality(FinalizedTapes) = 2
    /\ archive.segments_stored = 3

\* C34: for every leaf list of length 1..2^N and every valid index,
\* get_merkle_proof and get_merkle_proof_no_std return the same proof.
C34_SameProof ==
    \A i \in 0..(Len(leaves) - 1) :
        LET r == get_merkle_proof_no_std(leaves, Built(leaves).zero_values, i)
        IN /\ ~r.panic
           /\ ~r.undefined
           /\ r.proof = get_merkle_proof(leaves, Built(leaves).zero_values, i,
                                         MerkleHeight)
\* What holds of the two: they agree on lists of at most MAX_LAYER_SIZE leaves.
SameProofWhileTheyFit ==
    Len(leaves) <= MAX_LAYER_SIZE => C34_SameProof
\* Past MAX_LAYER_SIZE leaves the two return different proofs for some index.
ProofsDiffer ==
    \E i \in 0..(Len(leaves) - 1) :
        LET r == get_merkle_proof_no_std(leaves, Built(leaves).zero_values, i)
        IN /\ ~r.panic
           /\ Len(r.proof) = MerkleHeight
           /\ r.proof # get_merkle_proof(leaves, Built(leaves).zero_values, i,
                                         MerkleHeight)

\* The kinds of ProgramError that say nothing of the guard that failed.
GenericErrors == {"InvalidAccountData", "InvalidInstructionData", "InvalidArgument"}
\* The tapes whose finalization the Writing guard refuses, and those the rent
\* guard refuses.
NotWritingTapes == {addr \in OpenTapes : tapes[addr].state # Writing}
UnfundedTapes ==
    {addr \in OpenTapes : tapes[addr].state = Writing /\ ~can_finalize(tapes[addr])}
\* The miners whose next submission is a duplicate in a block that has not stalled.
DuplicateMiners ==
    {maddr \in DOMAIN miners :
        /\ miners[maddr].last_proof_block = block.number
        /\ ~has_stalled(block, clock.unix_timestamp)}

\* C35: every guard fails with its own typed kind: finalizing a tape that is
\* not Writing fails with UnexpectedState, finalizing a tape with too small a
\* balance fails with InsufficientRent, and a duplicate mine in a block that
\* has not stalled fails with a protocol-level kind, not a generic one.
C35_TypedErrors ==
    /\ \A addr \in NotWritingTapes :
           DoFinalize(tapes[addr], archive).err = "UnexpectedState"
    /\ \A addr \in UnfundedTapes :
           DoFinalize(tapes[addr], archive).err = "InsufficientRent"
    /\ \A maddr \in DuplicateMiners :
           /\ check_submission(miners[maddr], block, epoch, clock.unix_timestamp).err # ""
           /\ check_submission(miners[maddr], block, epoch, clock.unix_timestamp).err
                  \notin GenericErrors
\* What holds: each of the three guards does refuse, with a generic kind.
GuardsRefuse ==
    /\ \A addr \in NotWritingTapes \cup UnfundedTapes :
           DoFinalize(tapes[addr], archive).err = "InvalidAccountData"
    /\ \A maddr \in DuplicateMiners :
           check_submission(miners[maddr], block, epoch, clock.unix_timestamp).err
               = "InvalidInstructionData"
\* States where each of the guards is the one that refuses.
FinalizeRefusedNotWriting == NotWritingTapes # {}
FinalizeRefusedUnfunded == UnfundedTapes # {}
DuplicateRefused == last.op = "mine" /\ last.miner \in DuplicateMiners

\* What an accepted mine takes from the balance of the tape it recalls.
RentCharged == tapes[last'.tape].balance - tapes'[last'.tape].balance
\* The rent a tape owes for the blocks from one number to another.
RentBetween(tape, b1, b2) == tape.total_segments * RENT_PER_SEGMENT * (b2 - b1)
\* An accepted mine at block b leaves tape.last_rent_block = b; and when the
\* miner's previous accepted mine was against the same tape at block b1 (the
\* chain's one miner always recalls the genesis tape), the mine at b takes no
\* more than the rent of the blocks from b1 to b.
RentStep ==
    last'.op = "mine" =>
        /\ tapes'[last'.tape].last_rent_block = block.number
        /\ miners[last'.miner].total_proofs > 0 =>
               RentCharged <= RentBetween(tapes[last'.tape],
                                          miners[last'.miner].last_proof_block,
                                          block.number)

\* C36: rent for any block is deducted at most once: after an accepted mine at
\* block b the tape's last_rent_block is b, and the total deducted between
\* mines at blocks b1 <= b2 is at most total_segments * RENT_PER_SEGMENT *
\* (b2 - b1).
C36_RentOnce == [][RentStep]_vars
\* What holds: last_rent_block stays as tape creation left it, and every
\* accepted mine takes the rent of all the blocks since then, or the whole
\* balance when that is less.
RentSinceCreation ==
    last'.op = "mine" =>
        /\ tapes'[last'.tape].last_rent_block = tapes[last'.tape].last_rent_block
        /\ tapes[last'.tape].last_rent_block = 0
        /\ RentCharged = Min(tapes[last'.tape].balance,
                             RentBetween(tapes[last'.tape], 0, block.number))
RentChargedSinceCreation == [][RentSinceCreation]_vars
\* The second accepted mine has charged the rent of the first blocks again.
RentChargedTwice ==
    /\ last.op = "mine"
    /\ miners[last.miner].total_proofs = 2
    /\ tapes[last.tape].last_rent_block = 0
    /\ min_finalization_rent(tapes[last.tape].total_segments) - tapes[last.tape].balance
           > RentBetween(tapes[last.tape], 0, miners[last.miner].last_proof_block)

\* C37: in every reachable state block.progress < epoch.target_participation,
\* also right after an epoch advance that lowers target_participation.
C37_ProgressBelowTarget == block.progress < epoch.target_participation
\* What holds: process_mine leaves block.progress below the target it compared
\* it with, the one the epoch had before update_epoch.
ProgressBelowTargetBefore ==
    last'.op = "mine" => block'.progress < epoch.target_participation
ProgressBelowOldTarget == [][ProgressBelowTargetBefore]_vars
\* An accepted mine has advanced the epoch and lowered target_participation to
\* the progress the block already has.
TargetLoweredToProgress ==
    /\ last.op = "mine"
    /\ epoch.progress = 0
    /\ block.progress > 0
    /\ block.progress = epoch.target_participation

\* C38: for every block number, the rewards credited for the proofs accepted
\* while block.number had that value sum to at most the largest
\* epoch.reward_rate in force during that block, also when an epoch advance
\* or stalled duplicates fall inside the block.
C38_BlockRewards == budget.block_rewards <= budget.block_rate
\* What holds: one accepted proof is credited at most the reward rate of its
\* epoch divided by the target participation.
OneProofShare ==
    last'.op = "mine" =>
        Credited <= epoch.reward_rate \div epoch.target_participation
ProofRewardCapped == [][OneProofShare]_vars
\* A second proof has been accepted under a block number after the epoch
\* advanced inside the block, and the two rewards exceed the reward rate.
BlockOverpaid ==
    /\ last.op = "mine"
    /\ budget.block_of = block.number - 1
    /\ budget.block_rewards > epoch.reward_rate
    /\ budget.block_rate = epoch.reward_rate

\* C39: for every miner, total_proofs is the number of its accepted mines,
\* total_rewards the sum of the rewards of those mines, unclaimed_rewards is
\* total_rewards less what it has claimed (so at most total_rewards), and
\* last_proof_block is at most block.number.
C39_MinerCounters ==
    \A maddr \in DOMAIN miners :
        /\ miners[maddr].total_proofs = budget.ledger[maddr].proofs
        /\ miners[maddr].total_rewards = budget.ledger[maddr].rewards
        /\ miners[maddr].unclaimed_rewards =
               miners[maddr].total_rewards - budget.ledger[maddr].claimed
        /\ miners[maddr].unclaimed_rewards <= miners[maddr].total_rewards
        /\ miners[maddr].last_proof_block <= block.number

\* A miner registered in the run has had a proof accepted and has claimed a
\* part of its reward.
C39_Witness ==
    \E maddr \in DOMAIN miners \ {ChainMiner} :
        /\ miners[maddr].total_proofs = 1
        /\ budget.ledger[maddr].claimed > 0
        /\ miners[maddr].unclaimed_rewards > 0
        /\ miners[ChainMiner].total_proofs = ChainMines + 1

\* --------------------------------------------- miners that keep submitting
\* After the 1100 mines of the chain: the clock keeps advancing and the
\* chain's miner keeps submitting the honest solution for the genesis tape,
\* the one tape of the archive and so the one it is asked to recall; a second
\* miner may register and do the same.  The clock is not run further ahead of the
\* block than the point where the block has stalled, the run ends after
\* MaxLiveMines accepted proofs, and the miner registered in the run has at
\* most MaxOtherProofs of them.
MaxLiveMines == 12
MaxOtherProofs == 2
LiveMiner == miner_pda("alice", "m")

LiveTick ==
    /\ clock.unix_timestamp <= block.last_proof_at + BLOCK_DURATION_SECONDS
    /\ Tick(ChainTick)
    /\ UNCHANGED budget

LiveRegister ==
    /\ Register("alice", "m", LiveMiner, 0)
    /\ UNCHANGED budget

LiveMine(maddr) ==
    /\ budget.mines < MaxLiveMines
    /\ maddr \in DOMAIN miners
    /\ LET h == HonestSolution(maddr, GenesisTape)
       IN Mine(miners[maddr].authority, maddr, GenesisTape, h.pow, h.poa, 0)
    /\ budget' = Mined(budget)

LiveMineChain == LiveMine(ChainMiner)
LiveMineOther ==
    /\ LiveMiner \in DOMAIN miners
    /\ miners[LiveMiner].total_proofs < MaxOtherProofs
    /\ LiveMine(LiveMiner)

NextLive ==
    \/ LiveRegister
    \/ LiveTick
    \/ LiveMineChain
    \/ LiveMineOther

SpecLive ==
    /\ InitLate
    /\ [][NextLive]_vars
    /\ WF_vars(NextLive)

\* The accepted proofs the block still needs, and the epoch.
BlockNeeds == Max(1, epoch.target_participation - block.progress)
EpochNeeds == Max(1, EPOCH_BLOCKS + 1 - epoch.progress)
\* block.number and epoch.number change by going up by one, so that either
\* has increased exactly when it has changed between even and odd.
NumbersStep ==
    /\ block'.number \in {block.number, block.number + 1}
    /\ epoch'.number \in {epoch.number, epoch.number + 1}

\* C40: while the clock keeps advancing and a registered miner keeps
\* submitting valid solutions for the tape it is asked to recall,
\* block.number eventually increases and epoch.number eventually increases:
\* a miner that already proved in the current block is accepted again once the
\* block has stalled.  (Stated for the runs with accepted proofs left for the
\* block, and for the epoch, within MaxLiveMines.)
C40_Progress ==
    /\ [][NumbersStep]_vars
    /\ \A parity \in {0, 1} :
           (/\ block.number % 2 = parity
            /\ budget.mines + BlockNeeds <= MaxLiveMines) ~> (block.number % 2 # parity)
    /\ \A parity \in {0, 1} :
           (/\ epoch.number % 2 = parity
            /\ budget.mines + EpochNeeds <= MaxLiveMines) ~> (epoch.number % 2 # parity)

\* The one miner of a block that needs two proofs has had its second proof
\* accepted as a stalled duplicate, and the block number has risen; and an
\* epoch has been completed.
C40_Witness ==
    /\ last.op = "mine"
    /\ DOMAIN miners = {ChainMiner}
    /\ miners[ChainMiner].last_proof_block = block.number - 1
    /\ epoch.number = 102
    /\ epoch.duplicates > 0 \/ epoch.target_participation = 1
    /\ block.number > 1095
====
